---- MODULE Spec2Model ----
(***************************************************************************)
(* A model of tario: incremental reading and writing of TAR archives.     *)
(*                                                                         *)
(* The stream state machine (shared/state.rs), the sliding buffer          *)
(* (shared/buffer.rs), the slice utilities (shared/slices.rs) and the two  *)
(* drivers (read/mod.rs, write/mod.rs) are translated operator by          *)
(* operator.  Bytes are naturals, byte strings are sequences.  A block is  *)
(* BLOCK_SIZE bytes; the model runs the same code on a scaled-down block   *)
(* (the source uses 512), every offset being derived from BLOCK_SIZE.      *)
(***************************************************************************)
EXTENDS Naturals, Sequences, FiniteSets, TLC

\* ------------------------------------------------------------------------
\* Bounds of the model
\* ------------------------------------------------------------------------

\* Bytes in a block (the source's 512, scaled down).
BLOCK_SIZE == 4

\* Largest entry_size of an entry.
MaxSize == 5

\* Largest number of entries of an archive.
MaxEntries == 2

\* Largest number of times next_entry is counted to have returned absence.
MaxAbsences == 2

\* ------------------------------------------------------------------------
\* Helpers on naturals and sequences
\* ------------------------------------------------------------------------

Min(a, b) == IF a <= b THEN a ELSE b

\* `let v = ...;` followed by the rest of the function, K.
Then(v, K(_)) == K(v)

\* u64::next_multiple_of
next_multiple_of(n, m) == IF n % m = 0 THEN n ELSE n + (m - (n % m))

Take(s, n) == SubSeq(s, 1, Min(n, Len(s)))

Drop(s, n) == SubSeq(s, Min(n, Len(s)) + 1, Len(s))

Zeros(n) == [i \in 1..n |-> 0]

AllZero(s) == \A i \in 1..Len(s) : s[i] = 0

RECURSIVE Concat(_)
Concat(ss) == IF ss = <<>> THEN <<>> ELSE Head(ss) \o Concat(Tail(ss))

\* ------------------------------------------------------------------------
\* Header codec (block.rs, test.rs).  A header block is BLOCK_SIZE bytes:
\* byte 1 the path, byte 2 the size, byte 3 the checksum, the rest zero.
\* ------------------------------------------------------------------------

None == [some |-> FALSE, path |-> 0, size |-> 0]

\* calc_cksum: the sum of the bytes outside the checksum field, plus 32 for
\* each byte of the checksum field.
calc_cksum(block) == block[1] + block[2] + 32

\* make_entry_header(path, size).as_bytes()
as_bytes(h) == <<h.path, h.size, h.path + h.size + 32>> \o Zeros(BLOCK_SIZE - 3)

\* Block::as_header: Ok(header) when the stored checksum matches.
as_header(block) ==
    IF block[3] = calc_cksum(block)
    THEN [ok |-> TRUE, hdr |-> [some |-> TRUE, path |-> block[1], size |-> block[2]]]
    ELSE [ok |-> FALSE, hdr |-> None]

\* Header::entry_size
entry_size(h) == h.size

\* make_entry_data: byte i of the payload of the tests.
PayloadByte(i) == next_multiple_of(i, 255) - i

\* ------------------------------------------------------------------------
\* State (state.rs)
\* ------------------------------------------------------------------------

St(tag, rem, empty) == [tag |-> tag, rem |-> rem, empty |-> empty]

ExpectingHeader == St("ExpectingHeader", 0, FALSE)
ReceivingHeader(rem, empty) == St("ReceivingHeader", rem, empty)
ReceivedHeader == St("ReceivedHeader", 0, FALSE)
ReceivingData(rem) == St("ReceivingData", rem, FALSE)
ReceivedData == St("ReceivedData", 0, FALSE)
AligningData(rem) == St("AligningData", rem, FALSE)
AlignedData == St("AlignedData", 0, FALSE)
ReceivingEof(rem) == St("ReceivingEof", rem, FALSE)
ReceivedEof == St("ReceivedEof", 0, FALSE)

is_terminal(s) == s.tag = "ReceivedEof" \/ (s.tag = "ReceivingEof" /\ s.rem = 0)

\* A variant of is_marker for which ReceivedEof is not a marker.
is_marker_but_eof(s) ==
    s.tag \in {"ExpectingHeader", "ReceivedHeader", "ReceivedData", "AlignedData"}

is_marker(s) ==
    s.tag \in {"ExpectingHeader", "ReceivedHeader", "ReceivedData", "AlignedData", "ReceivedEof"}

\* Results of the state machine: Ok((state, n)), Err(e) or a panic.
SOk(s, n) == [res |-> "Ok", state |-> s, n |-> n, err |-> "none"]
SErr(e) == [res |-> "Err", state |-> ExpectingHeader, n |-> 0, err |-> e]
SPanic(e) == [res |-> "Panic", state |-> ExpectingHeader, n |-> 0, err |-> e]

\* A variant of advance that takes the whole buffer.
advance_all(buf, max) == Len(buf)

advance(buf, max) == Min(max, Len(buf))

\* A variant of alignment that pads a payload that ends on a block boundary
\* with a whole block.
alignment_whole_block(rem) == BLOCK_SIZE - (rem % BLOCK_SIZE)

\* A variant of alignment that pads no payload.
alignment_none(rem) == 0

\* The padding after rem bytes of payload (the ReceivedData arm of next).
alignment(rem) == next_multiple_of(rem, BLOCK_SIZE) - rem

\* A variant of error_kind in which an overlapping entry is invalid data.
error_kind_overlap_invalid(err) ==
    CASE err \in {"ExpectingHeader", "ExpectingEmptyBlock", "Eof", "InvalidData",
                  "OverlappingEntry"} -> "InvalidData"
      [] err = "UnexpectedEof" -> "UnexpectedEof"
      [] err = "WriteZero" -> "WriteZero"
      [] OTHER -> "none"

\* Error::kind (state.rs), WriteError::kind, ReadError::kind and the kinds of
\* the io errors the drivers make themselves.
error_kind(err) ==
    CASE err \in {"ExpectingHeader", "ExpectingEmptyBlock", "Eof", "InvalidData"} -> "InvalidData"
      [] err = "UnexpectedEof" -> "UnexpectedEof"
      [] err = "WriteZero" -> "WriteZero"
      [] err = "OverlappingEntry" -> "Unsupported"
      [] OTHER -> "none"

\* A variant of read that takes every byte for a zero.
read_all_empty(buf, rem) == [len |-> advance(buf, rem), empty |-> TRUE]

\* A variant of read that looks at the first byte only.
read_first_byte(buf, rem) ==
    LET len == advance(buf, rem)
    IN  [len |-> len, empty |-> (len = 0 \/ buf[1] = 0)]

\* A variant of read that looks at the last byte it takes only.
read_last_byte(buf, rem) ==
    LET len == advance(buf, rem)
    IN  [len |-> len, empty |-> (len = 0 \/ buf[len] = 0)]

\* read (inside State::next): the bytes taken and whether they are all zero.
read(buf, rem) ==
    LET len == advance(buf, rem)
    IN  [len |-> len, empty |-> AllZero(Take(buf, len))]

\* State::next
next(self, buf, header) ==
    CASE self.tag = "ExpectingHeader" -> SOk(ReceivingHeader(BLOCK_SIZE, TRUE), 0)
      [] self.tag = "ReceivingHeader" ->
            LET rd == read(buf, self.rem)
                len == rd.len
                rem == self.rem - len
                is_empty == self.empty /\ rd.empty
            IN  IF rem = 0
                THEN IF is_empty THEN SOk(ReceivingEof(BLOCK_SIZE), len)
                                 ELSE SOk(ReceivedHeader, len)
                ELSE SOk(ReceivingHeader(rem, is_empty), len)
      [] self.tag = "ReceivedHeader" ->
            IF ~header.some THEN SPanic("header cannot be nil")
            ELSE SOk(ReceivingData(entry_size(header)), 0)
      [] self.tag = "ReceivingData" ->
            LET len == advance(buf, self.rem)
                rem == self.rem - len
            IN  IF rem = 0 THEN SOk(ReceivedData, len) ELSE SOk(ReceivingData(rem), len)
      [] self.tag = "ReceivedData" ->
            IF ~header.some THEN SPanic("header cannot be nil")
            ELSE SOk(AligningData(alignment(entry_size(header))), 0)
      [] self.tag = "AligningData" ->
            LET len == advance(buf, self.rem)
                rem == self.rem - len
            IN  IF rem = 0 THEN SOk(AlignedData, len) ELSE SOk(AligningData(rem), len)
      [] self.tag = "AlignedData" -> SOk(ExpectingHeader, 0)
      [] self.tag = "ReceivingEof" ->
            LET rd == read(buf, self.rem)
                len == rd.len
                rem == self.rem - len
            IN  IF ~rd.empty THEN SErr("ExpectingEmptyBlock")
                ELSE IF rem = 0 THEN SOk(ReceivedEof, len) ELSE SOk(ReceivingEof(rem), len)
      [] self.tag = "ReceivedEof" -> SErr("Eof")

\* State::take_until: the loop, with state, cur and the rest of buf.
RECURSIVE take_until_loop(_, _, _, _, _)
take_until_loop(state, cur, buf, stop, header) ==
    Then(next(state, buf, header), LAMBDA nx :
        IF nx.res # "Ok" THEN nx
        ELSE IF nx.state \in stop \/ Drop(buf, nx.n) = <<>>
             THEN SOk(nx.state, cur + nx.n)
             ELSE take_until_loop(nx.state, cur + nx.n, Drop(buf, nx.n), stop, header))

\* A variant of take_until that runs to the end of the buffer.
take_until_buffer(self, stop, buf, header) == take_until_loop(self, 0, buf, {}, header)

take_until(self, stop, buf, header) == take_until_loop(self, 0, buf, stop, header)

StopStates == {ReceivedHeader, ReceivedEof}

\* State::take_slices: the for loop over the slices, then the forced step.
RECURSIVE take_slices_loop(_, _, _, _, _)
take_slices_loop(state, cur, needs_next, slices, hdr) ==
    IF slices = <<>> /\ ~needs_next THEN SOk(state, cur)
    ELSE IF slices # <<>> /\ Head(slices) = <<>>
    THEN take_slices_loop(state, cur, needs_next, Tail(slices), hdr)
    ELSE Then(take_until(state, StopStates, IF slices = <<>> THEN <<>> ELSE Head(slices), hdr),
              LAMBDA nx :
        IF nx.res # "Ok" THEN nx
        ELSE IF slices = <<>> \/ nx.state \in StopStates
             THEN SOk(nx.state, cur + nx.n)
             ELSE take_slices_loop(nx.state, cur + nx.n, FALSE, Tail(slices), hdr))

\* A variant of take_slices without the forced step: slices that hold no
\* byte leave the state as it is.
take_slices_idle(self, slices, hdr) == take_slices_loop(self, 0, FALSE, slices, hdr)

take_slices(self, slices, hdr) == take_slices_loop(self, 0, TRUE, slices, hdr)

\* State::take_marker
take_marker(self, header) ==
    IF ~is_marker(self) THEN SPanic("not a marker") ELSE next(self, <<>>, header)

\* ------------------------------------------------------------------------
\* Buf (buffer.rs).  An archive record holds the filled prefix buf[..cap] of
\* the buffer as `bytes` (so cap = Len(bytes)), the read cursor `pos` and
\* the physical length `capacity`.
\* ------------------------------------------------------------------------

\* Buf::buffered_bytes: buf[pos..cap]
buffered_bytes(a) == SubSeq(a.bytes, a.pos + 1, Len(a.bytes))

\* Buf::available().remaining(): capacity - cap
available_remaining(a) == a.capacity - Len(a.bytes)

\* Buf::clear
clear(a) == [a EXCEPT !.bytes = <<>>, !.pos = 0]

\* ------------------------------------------------------------------------
\* Results of the polls of a driver: the archive after the poll, and
\* Ready(Ok) ("Ok"), Pending, Ready(Err) ("Err", with the error) or a panic.
\* ------------------------------------------------------------------------

Rs(a, kind, err) ==
    [a |-> a, kind |-> kind, err |-> err, state |-> ExpectingHeader, amt |-> 0,
     data |-> <<>>, hdr |-> None]

\* The io object answers a call with not-ready, or with the largest number
\* of bytes it moves in that call.  It follows a schedule, cyclically.
NotReady == [ready |-> FALSE, max |-> 0]
Moves(n) == [ready |-> TRUE, max |-> n]

io_answer(a) == a.sched[a.k]

io_step(a) == [a EXCEPT !.k = (a.k % Len(a.sched)) + 1]

\* ------------------------------------------------------------------------
\* Read driver (read/mod.rs).  The source holds `data`, `at` bytes of which
\* have been delivered.
\* ------------------------------------------------------------------------

\* io.poll_read(cx, &mut buf) on buf.available_bytes_mut(): the source has
\* answered a read.
source_read(a) == [io_step(a) EXCEPT !.full = @ /\ available_remaining(a) = a.capacity]

\* A variant of poll_fill_buf for which the end of the source is invalid data.
poll_fill_buf_invalid(a) ==
    IF buffered_bytes(a) # <<>> THEN Rs(a, "Ok", "none")
    ELSE IF ~io_answer(a).ready THEN Rs(source_read(a), "Pending", "none")
    ELSE Then(Min(Min(available_remaining(a), Len(a.data) - a.at), io_answer(a).max),
              LAMBDA bytes_read :
        IF bytes_read = 0 /\ available_remaining(a) = 0
        THEN Rs(source_read(a), "Panic", "available region is empty")
        ELSE IF bytes_read = 0 /\ ~is_terminal(a.state)
        THEN Rs(source_read(a), "Err", "InvalidData")
        ELSE Rs([source_read(a) EXCEPT !.bytes = @ \o SubSeq(a.data, a.at + 1, a.at + bytes_read),
                                   !.at = @ + bytes_read], "Ok", "none"))

\* A variant of poll_fill_buf that reads from the source whenever it has
\* less than a block buffered.
poll_fill_buf_eager(a) ==
    IF Len(buffered_bytes(a)) >= BLOCK_SIZE THEN Rs(a, "Ok", "none")
    ELSE IF ~io_answer(a).ready THEN Rs(source_read(a), "Pending", "none")
    ELSE Then(Min(Min(available_remaining(a), Len(a.data) - a.at), io_answer(a).max),
              LAMBDA bytes_read :
        IF bytes_read = 0 /\ available_remaining(a) = 0
        THEN Rs(source_read(a), "Panic", "available region is empty")
        ELSE IF bytes_read = 0 /\ ~is_terminal(a.state)
        THEN Rs(source_read(a), "Err", "UnexpectedEof")
        ELSE Rs([source_read(a) EXCEPT !.bytes = @ \o SubSeq(a.data, a.at + 1, a.at + bytes_read),
                                   !.at = @ + bytes_read], "Ok", "none"))

\* Archive::poll_fill_buf
poll_fill_buf(a) ==
    IF buffered_bytes(a) # <<>> THEN Rs(a, "Ok", "none")
    ELSE IF ~io_answer(a).ready THEN Rs(source_read(a), "Pending", "none")
    ELSE Then(Min(Min(available_remaining(a), Len(a.data) - a.at), io_answer(a).max),
              LAMBDA bytes_read :
        IF bytes_read = 0 /\ available_remaining(a) = 0
        THEN Rs(source_read(a), "Panic", "available region is empty")
        ELSE IF bytes_read = 0 /\ ~is_terminal(a.state)
        THEN Rs(source_read(a), "Err", "UnexpectedEof")
        ELSE Rs([source_read(a) EXCEPT !.bytes = @ \o SubSeq(a.data, a.at + 1, a.at + bytes_read),
                                   !.at = @ + bytes_read], "Ok", "none"))

\* Archive::poll_next_state
poll_next_state(a, header) ==
    Then(poll_fill_buf(a), LAMBDA f :
        IF f.kind # "Ok" THEN f
        ELSE Then(next(f.a.state, buffered_bytes(f.a), header), LAMBDA nx :
            IF nx.res = "Panic" THEN Rs(f.a, "Panic", nx.err)
            ELSE IF nx.res = "Err" THEN Rs(f.a, "Err", nx.err)
            ELSE [Rs(f.a, "Ok", "none") EXCEPT !.state = nx.state, !.amt = nx.n]))

\* A variant of ChainsStep that leaves AlignedData as it is.
ChainsStep_but_aligned(s) ==
    \/ s.tag \in {"ReceivedHeader", "ReceivedData"}
    \/ s.tag \in {"ReceivingData", "AligningData", "ReceivingEof"} /\ s.rem = 0
    \/ s.tag = "ReceivingHeader" /\ s.rem = 0 /\ ~s.empty

\* The states out of which consume chains one more step.
ChainsStep(s) ==
    \/ s.tag \in {"ReceivedHeader", "ReceivedData", "AlignedData"}
    \/ s.tag \in {"ReceivingData", "AligningData", "ReceivingEof"} /\ s.rem = 0
    \/ s.tag = "ReceivingHeader" /\ s.rem = 0 /\ ~s.empty

\* A variant of commit that leaves the cursors where they are when the
\* buffer has been read to its end.
commit_keep(a, state, amt) == [a EXCEPT !.state = state, !.pos = @ + amt]

\* Archive::consume: the buffer after `amt` bytes have been committed.
commit(a, state, amt) ==
    Then([a EXCEPT !.state = state, !.pos = @ + amt], LAMBDA a1 :
        IF a1.pos = Len(a1.bytes) THEN clear(a1) ELSE a1)

\* Archive::consume
consume(a, amt, header) ==
    IF Len(buffered_bytes(a)) < amt THEN Rs(a, "Panic", "cannot consume more than available")
    ELSE Then(take_slices(a.state, <<Take(buffered_bytes(a), amt)>>, header), LAMBDA ts :
        IF ts.res = "Panic" THEN Rs(a, "Panic", ts.err)
        ELSE IF ts.res = "Err" THEN Rs(a, "Panic", "this slice should have already been checked")
        ELSE Then(IF ChainsStep(ts.state) THEN next(ts.state, <<>>, header) ELSE SOk(ts.state, 0),
                  LAMBDA ch :
            IF ch.res # "Ok" THEN Rs(a, "Panic", ch.err)
            ELSE IF ts.n # amt THEN Rs(a, "Panic", "cannot consume past another entry")
            ELSE Rs(commit(a, ch.state, amt), "Ok", "none")))

\* Archive::poll_next_entry: the ReceivedHeader arm, with the header parsed
\* from buf[..BLOCK_SIZE].
received_header(ns) ==
    IF Len(buffered_bytes(ns.a)) < BLOCK_SIZE
    THEN Rs(ns.a, "Panic", "range end index out of range")
    ELSE Then(as_header(Take(buffered_bytes(ns.a), BLOCK_SIZE)), LAMBDA h :
        IF ~h.ok THEN Rs(ns.a, "Err", "InvalidData")
        ELSE Then(consume(ns.a, ns.amt, h.hdr), LAMBDA c :
            IF c.kind # "Ok" THEN c ELSE [Rs(c.a, "Ok", "none") EXCEPT !.hdr = h.hdr]))

\* Archive::poll_next_entry: the loop.
RECURSIVE poll_next_entry_loop(_)
poll_next_entry_loop(a) ==
    Then(poll_next_state(a, None), LAMBDA ns :
        IF ns.kind # "Ok" THEN ns
        ELSE CASE ns.state.tag = "ReceivedHeader" -> received_header(ns)
               [] ns.state.tag = "ReceivedEof" -> consume(ns.a, ns.amt, None)
               [] ns.state.tag \in {"ReceivingHeader", "ReceivingEof", "AligningData", "AlignedData"} ->
                    Then(consume(ns.a, ns.amt, None), LAMBDA c :
                        IF c.kind # "Ok" THEN c ELSE poll_next_entry_loop(c.a))
               [] OTHER -> Rs(ns.a, "Panic", "cannot read next entry while another entry is being read"))

\* A variant of poll_next_entry that reads on from the source in
\* ReceivedEof.
poll_next_entry_on(a) ==
    IF a.state.tag = "ReceivingEof" /\ a.state.rem = 0 THEN Rs(a, "Ok", "none")
    ELSE poll_next_entry_loop(a)

\* Archive::poll_next_entry: Ok with hdr.some for an entry, Ok with hdr = None
\* for absence.
poll_next_entry(a) ==
    IF is_terminal(a.state) THEN Rs(a, "Ok", "none") ELSE poll_next_entry_loop(a)

\* A variant of poll_read_entry that offers the caller all it has buffered.
RECURSIVE poll_read_entry_whole(_, _)
poll_read_entry_whole(a, header) ==
    Then(poll_next_state(a, header), LAMBDA ns :
        IF ns.kind # "Ok" THEN ns
        ELSE CASE ns.state.tag \in {"ReceivingData", "ReceivedData"} ->
                    [Rs(ns.a, "Ok", "none") EXCEPT !.data = buffered_bytes(ns.a)]
               [] ns.state.tag = "AligningData" ->
                    Then(consume(ns.a, ns.amt, None), LAMBDA c :
                        IF c.kind # "Ok" THEN c ELSE poll_read_entry_whole(c.a, header))
               [] ns.state.tag = "AlignedData" -> consume(ns.a, ns.amt, header)
               [] OTHER -> Rs(ns.a, "Panic", "cannot read entry: invalid state"))

\* Archive::poll_read_entry: Ok with the slice offered to the caller in data.
RECURSIVE poll_read_entry(_, _)
poll_read_entry(a, header) ==
    Then(poll_next_state(a, header), LAMBDA ns :
        IF ns.kind # "Ok" THEN ns
        ELSE CASE ns.state.tag \in {"ReceivingData", "ReceivedData"} ->
                    [Rs(ns.a, "Ok", "none") EXCEPT !.data = Take(buffered_bytes(ns.a), ns.amt)]
               [] ns.state.tag = "AligningData" ->
                    Then(consume(ns.a, ns.amt, None), LAMBDA c :
                        IF c.kind # "Ok" THEN c ELSE poll_read_entry(c.a, header))
               [] ns.state.tag = "AlignedData" -> consume(ns.a, ns.amt, header)
               [] OTHER -> Rs(ns.a, "Panic", "cannot read entry: invalid state"))

\* Archive::poll_skip_entry
RECURSIVE poll_skip_entry(_, _)
poll_skip_entry(a, header) ==
    Then(poll_read_entry(a, header), LAMBDA rd :
        IF rd.kind # "Ok" THEN rd
        ELSE IF Len(rd.data) = 0
             THEN IF rd.a.state # ExpectingHeader
                  THEN Rs(rd.a, "Panic", "assertion failed: state == ExpectingHeader")
                  ELSE Rs(rd.a, "Ok", "none")
             ELSE Then(consume(rd.a, Len(rd.data), header), LAMBDA c :
                      IF c.kind # "Ok" THEN c ELSE poll_skip_entry(c.a, header)))

\* A variant of Entry::poll_read that consumes as many bytes as the caller's
\* buffer holds, whatever the slice it was offered.
entry_poll_read_remaining(a, header, remaining) ==
    IF remaining = 0 THEN Rs(a, "Ok", "none")
    ELSE Then(poll_read_entry(a, header), LAMBDA rd :
        IF rd.kind # "Ok" THEN rd
        ELSE Then(consume(rd.a, remaining, header), LAMBDA c :
            IF c.kind # "Ok" THEN c
            ELSE [Rs(c.a, "Ok", "none") EXCEPT !.data = Take(rd.data, Min(Len(rd.data), remaining))]))

\* AsyncBufRead for Entry: poll_fill_buf, and consume(amt) once it has
\* returned a slice.
entry_fill_consume(a, header, amt) ==
    Then(poll_read_entry(a, header), LAMBDA rd :
        IF rd.kind # "Ok" THEN rd
        ELSE Then(consume(rd.a, amt, header), LAMBDA c :
            IF c.kind # "Ok" THEN c
            ELSE [Rs(c.a, "Ok", "none") EXCEPT !.data = Take(rd.data, amt)]))

\* AsyncRead::poll_read for Entry, with a caller buffer of `remaining` bytes.
entry_poll_read(a, header, remaining) ==
    IF remaining = 0 THEN Rs(a, "Ok", "none")
    ELSE Then(poll_read_entry(a, header), LAMBDA rd :
        IF rd.kind # "Ok" THEN rd
        ELSE Then(consume(rd.a, Min(Len(rd.data), remaining), header), LAMBDA c :
            IF c.kind # "Ok" THEN c
            ELSE [Rs(c.a, "Ok", "none") EXCEPT !.data = Take(rd.data, Min(Len(rd.data), remaining))]))

\* ------------------------------------------------------------------------
\* Slice utilities (slices.rs).  A list of IoSlice is a sequence of byte
\* strings; a Prefix or a Suffix is a list of slices and a remainder.
\* ------------------------------------------------------------------------

from_parts(slices, remainder) == [slices |-> slices, remainder |-> remainder]

\* Prefix::iter_slices: the slices, then the remainder.
prefix_iter_slices(p) == p.slices \o <<p.remainder>>

\* Suffix::iter_slices: the remainder, then the slices.
suffix_iter_slices(s) == <<s.remainder>> \o s.slices

RECURSIVE bytes_len(_)
bytes_len(slices) == IF slices = <<>> THEN 0 ELSE Len(Head(slices)) + bytes_len(Tail(slices))

\* The find_map of split_at_byte_offset: the first slice, counting from 0,
\* that `rem` does not cover, and what is left of `rem` there.
RECURSIVE find_split(_, _, _)
find_split(slices, rem, index) ==
    IF slices = <<>> THEN [found |-> FALSE, index |-> index, offset |-> rem]
    ELSE IF rem >= Len(Head(slices))
         THEN find_split(Tail(slices), rem - Len(Head(slices)), index + 1)
         ELSE [found |-> TRUE, index |-> index, offset |-> rem]

\* split_at_index for &[IoSlice]
slices_split_at_index(slices, index, offset) ==
    LET prefix == SubSeq(slices, 1, index)
        suffix == SubSeq(slices, index + 1, Len(slices))
    IN  IF offset = 0
        THEN [prefix |-> from_parts(prefix, <<>>), suffix |-> from_parts(suffix, <<>>)]
        ELSE [prefix |-> from_parts(prefix, Take(suffix[1], offset)),
              suffix |-> from_parts(Tail(suffix), Drop(suffix[1], offset))]

\* split_at_byte_offset for &[IoSlice]
slices_split_at_byte_offset(slices, offset) ==
    Then(find_split(slices, offset, 0), LAMBDA f :
        IF f.found THEN slices_split_at_index(slices, f.index, f.offset)
        ELSE [prefix |-> from_parts(slices, <<>>), suffix |-> from_parts(<<>>, <<>>)])

\* split_at_index for Prefix
prefix_split_at_index(p, index, offset) ==
    IF index = Len(p.slices)
    THEN [prefix |-> from_parts(p.slices, Take(p.remainder, offset)),
          suffix |-> from_parts(<<>>, Drop(p.remainder, offset))]
    ELSE slices_split_at_index(p.slices, index, offset)

\* split_at_byte_offset for Prefix
prefix_split_at_byte_offset(p, offset) ==
    Then(find_split(prefix_iter_slices(p), offset, 0), LAMBDA f :
        IF f.found THEN prefix_split_at_index(p, f.index, f.offset)
        ELSE [prefix |-> from_parts(p.slices, p.remainder), suffix |-> from_parts(<<>>, <<>>)])

\* take_prefix for &[IoSlice] and for Prefix
slices_take_prefix(slices, len) == slices_split_at_byte_offset(slices, len).prefix

\* A variant of Prefix::take_prefix that keeps the whole prefix.
prefix_take_prefix_whole(p, len) == p

prefix_take_prefix(p, len) == prefix_split_at_byte_offset(p, len).prefix

\* ------------------------------------------------------------------------
\* Write driver (write/mod.rs).  The sink has received `out`; `vectored`
\* is its is_write_vectored().
\* ------------------------------------------------------------------------

\* io.poll_write(buf): Ok with the count in amt.
sink_poll_write(a, buf) ==
    IF ~io_answer(a).ready THEN Rs(io_step(a), "Pending", "none")
    ELSE Then(Min(Len(buf), io_answer(a).max), LAMBDA n :
        [Rs([io_step(a) EXCEPT !.out = @ \o Take(buf, n)], "Ok", "none") EXCEPT !.amt = n])

\* io.poll_write_vectored(slices)
sink_poll_write_vectored(a, slices) == sink_poll_write(a, Concat(slices))

\* A variant of poll_flush_buffered that empties the buffer when the sink
\* accepts 0 bytes.
RECURSIVE poll_flush_buffered_clear(_)
poll_flush_buffered_clear(a) ==
    IF buffered_bytes(a) = <<>> THEN Rs(clear(a), "Ok", "none")
    ELSE Then(sink_poll_write(a, buffered_bytes(a)), LAMBDA w :
        IF w.kind # "Ok" THEN w
        ELSE IF w.amt = 0 THEN Rs(clear(w.a), "Err", "WriteZero")
        ELSE poll_flush_buffered_clear([w.a EXCEPT !.pos = @ + w.amt]))

\* Archive::poll_flush_buffered
RECURSIVE poll_flush_buffered(_)
poll_flush_buffered(a) ==
    IF buffered_bytes(a) = <<>> THEN Rs(clear(a), "Ok", "none")
    ELSE Then(sink_poll_write(a, buffered_bytes(a)), LAMBDA w :
        IF w.kind # "Ok" THEN w
        ELSE IF w.amt = 0 THEN Rs(w.a, "Err", "WriteZero")
        ELSE poll_flush_buffered([w.a EXCEPT !.pos = @ + w.amt]))

\* The pass-through branch of poll_write_vectored: the vectored write of the
\* slices, then the write of the remainder.
pass_through(a, prefix, prefix_len) ==
    Then(sink_poll_write_vectored(a, prefix.slices), LAMBDA v :
        IF v.kind # "Ok" THEN v
        ELSE IF v.amt = prefix_len - Len(prefix.remainder)
             THEN Then(sink_poll_write(v.a, prefix.remainder), LAMBDA w :
                      IF w.kind = "Ok" THEN [w EXCEPT !.amt = v.amt + w.amt]
                      ELSE [Rs(w.a, "Ok", "none") EXCEPT !.amt = v.amt])
             ELSE v)

\* A variant of fill_from_slices that copies every byte of the slices,
\* whatever room the available region has.
fill_from_slices_all(a, slices) ==
    Then(bytes_len(slices), LAMBDA len :
        [Rs([a EXCEPT !.bytes = @ \o Take(Concat(slices), len)], "Ok", "none") EXCEPT !.amt = len])

\* WritableRegion::fill_from_slices on buf.available()
fill_from_slices(a, slices) ==
    Then(Min(bytes_len(slices), available_remaining(a)), LAMBDA len :
        [Rs([a EXCEPT !.bytes = @ \o Take(Concat(slices), len)], "Ok", "none") EXCEPT !.amt = len])

\* A variant of written that adopts the state after the whole prefix,
\* however many bytes of it were written.
written_whole(a, prefix, prefix_len, nx, w, header) ==
    IF w.kind # "Ok" THEN w
    ELSE [Rs([w.a EXCEPT !.state = nx.state], "Ok", "none") EXCEPT !.amt = w.amt]

\* Archive::poll_write_vectored: the state after the sink or the buffer took
\* w.amt bytes of the prefix, whose end state is nx.
written(a, prefix, prefix_len, nx, w, header) ==
    IF w.kind # "Ok" THEN w
    ELSE IF w.amt = prefix_len
    THEN [Rs([w.a EXCEPT !.state = nx.state], "Ok", "none") EXCEPT !.amt = w.amt]
    ELSE Then(take_slices(a.state, prefix_iter_slices(prefix_take_prefix(prefix, w.amt)), header),
              LAMBDA n2 :
        IF n2.res = "Panic" THEN Rs(w.a, "Panic", n2.err)
        ELSE IF n2.res = "Err" THEN Rs(w.a, "Panic", "this slice should have already been checked")
        ELSE IF n2.n # w.amt THEN Rs(w.a, "Panic", "assertion failed: next.1 == bytes_written")
        ELSE [Rs([w.a EXCEPT !.state = n2.state], "Ok", "none") EXCEPT !.amt = w.amt])

\* A variant of flush_and_write that passes slices through without flushing
\* the buffer first.
flush_and_write_unflushed(a, prefix, prefix_len, can_pass_through, nx, header) ==
    Then(IF ~can_pass_through /\ prefix_len > available_remaining(a)
         THEN poll_flush_buffered(a) ELSE Rs(a, "Ok", "none"), LAMBDA fl :
        IF fl.kind # "Ok" THEN fl
        ELSE Then(IF can_pass_through THEN pass_through(fl.a, prefix, prefix_len)
                  ELSE fill_from_slices(fl.a, prefix_iter_slices(prefix)), LAMBDA w :
            written(a, prefix, prefix_len, nx, w, header)))

\* Archive::poll_write_vectored: the flush and the write of a prefix whose
\* end state is nx.
flush_and_write(a, prefix, prefix_len, can_pass_through, nx, header) ==
    Then(IF can_pass_through \/ prefix_len > available_remaining(a)
         THEN poll_flush_buffered(a) ELSE Rs(a, "Ok", "none"), LAMBDA fl :
        IF fl.kind # "Ok" THEN fl
        ELSE Then(IF can_pass_through THEN pass_through(fl.a, prefix, prefix_len)
                  ELSE fill_from_slices(fl.a, prefix_iter_slices(prefix)), LAMBDA w :
            written(a, prefix, prefix_len, nx, w, header)))

\* Archive::poll_write_vectored, given the prefix: Ok with bytes_written in
\* amt.
write_prefix(a, prefix, prefix_len, header) ==
    Then(take_slices(a.state, prefix_iter_slices(prefix), header), LAMBDA nx :
        IF nx.res = "Panic" THEN Rs(a, "Panic", nx.err)
        ELSE IF nx.res = "Err" THEN Rs(a, "Err", nx.err)
        ELSE IF nx.n # prefix_len THEN Rs(a, "Panic", "assertion failed: next.1 == prefix_len")
        ELSE flush_and_write(a, prefix, prefix_len, prefix_len >= a.capacity /\ a.vectored,
                             nx, header))

\* Archive::poll_write_vectored
poll_write_vectored(a, bufs, max, header) ==
    Then(slices_take_prefix(bufs, max), LAMBDA prefix :
        write_prefix(a, prefix, bytes_len(prefix_iter_slices(prefix)), header))

\* Archive::poll_write_data
poll_write_data(a, buf, header) == poll_write_vectored(a, <<buf>>, Len(buf), header)

\* A variant of step_marker that passes no header to take_marker.
step_marker_nil(a, header) ==
    Then(take_marker(a.state, None), LAMBDA m :
        IF m.res = "Panic" THEN Rs(a, "Panic", m.err)
        ELSE IF m.res = "Err" THEN Rs(a, "Err", m.err)
        ELSE Rs([a EXCEPT !.state = m.state], "Ok", "none"))

\* The take_marker calls of the write driver: the state is replaced on Ok.
step_marker(a, header) ==
    Then(take_marker(a.state, header), LAMBDA m :
        IF m.res = "Panic" THEN Rs(a, "Panic", m.err)
        ELSE IF m.res = "Err" THEN Rs(a, "Err", m.err)
        ELSE Rs([a EXCEPT !.state = m.state], "Ok", "none"))

\* A variant of poll_write_header that offers the whole header block again
\* when it resumes in ReceivingHeader(rem, false).
RECURSIVE poll_write_header_restart(_, _)
poll_write_header_restart(a, header) ==
    CASE a.state.tag = "ExpectingHeader" ->
            Then(poll_write_data(a, as_bytes(header), header), LAMBDA w :
                IF w.kind # "Ok" THEN w
                ELSE IF w.amt = 0 THEN Rs(w.a, "Err", "WriteZero")
                ELSE poll_write_header_restart(w.a, header))
      [] a.state.tag = "ReceivingHeader" /\ ~a.state.empty ->
            Then(poll_write_data(a, as_bytes(header), header), LAMBDA w :
                IF w.kind # "Ok" THEN w
                ELSE IF w.amt = 0 /\ a.state.rem > 0 THEN Rs(w.a, "Err", "WriteZero")
                ELSE poll_write_header_restart(w.a, header))
      [] a.state.tag = "ReceivedHeader" -> step_marker(a, header)
      [] a.state.tag \in {"ReceivingData", "ReceivedData", "AligningData", "AlignedData"} ->
            Rs(a, "Err", "OverlappingEntry")
      [] OTHER -> Rs(a, "Panic", "cannot write header; invalid state")

\* Archive::poll_write_header
RECURSIVE poll_write_header(_, _)
poll_write_header(a, header) ==
    CASE a.state.tag = "ExpectingHeader" ->
            Then(poll_write_data(a, as_bytes(header), header), LAMBDA w :
                IF w.kind # "Ok" THEN w
                ELSE IF w.amt = 0 THEN Rs(w.a, "Err", "WriteZero")
                ELSE poll_write_header(w.a, header))
      [] a.state.tag = "ReceivingHeader" /\ ~a.state.empty ->
            Then(poll_write_data(a, Drop(as_bytes(header), BLOCK_SIZE - a.state.rem), header),
                 LAMBDA w :
                IF w.kind # "Ok" THEN w
                ELSE IF w.amt = 0 /\ a.state.rem > 0 THEN Rs(w.a, "Err", "WriteZero")
                ELSE poll_write_header(w.a, header))
      [] a.state.tag = "ReceivedHeader" -> step_marker(a, header)
      [] a.state.tag \in {"ReceivingData", "ReceivedData", "AligningData", "AlignedData"} ->
            Rs(a, "Err", "OverlappingEntry")
      [] OTHER -> Rs(a, "Panic", "cannot write header; invalid state")

\* Archive::poll_finish_entry
RECURSIVE poll_finish_entry(_, _)
poll_finish_entry(a, header) ==
    CASE a.state.tag = "ReceivedData" ->
            Then(step_marker(a, header), LAMBDA m :
                IF m.kind # "Ok" THEN m ELSE poll_finish_entry(m.a, header))
      [] a.state.tag = "AligningData" ->
            Then(poll_write_data(a, Zeros(a.state.rem), header), LAMBDA w :
                IF w.kind # "Ok" THEN w ELSE poll_finish_entry(w.a, header))
      [] a.state.tag = "AlignedData" -> step_marker(a, None)
      [] a.state.tag = "ExpectingHeader" -> Rs(a, "Ok", "none")
      [] OTHER -> Rs(a, "Panic", "cannot finish entry; invalid state")

\* Archive::poll_write_entry: what follows the write of the last bytes of the
\* entry, w.  The debug_asserts fire in a build with debug assertions
\* (a.debug).
last_bytes_written(a, bufs, w, header) ==
    IF a.debug /\ bytes_len(bufs) # w.amt
    THEN Rs(w.a, "Panic", "assertion failed: bufs.bytes_len() == n")
    ELSE IF a.debug /\ w.a.state # ReceivedData
    THEN Rs(w.a, "Panic", "assertion failed: state == ReceivedData")
    ELSE Then(poll_finish_entry(w.a, header), LAMBDA f :
        IF f.kind \in {"Pending", "Panic"} THEN f
        ELSE IF a.debug /\ f.kind # "Ok"
        THEN Rs(f.a, "Panic", "assertion failed: res.is_ok()")
        ELSE [Rs(f.a, "Ok", "none") EXCEPT !.amt = w.amt])

\* A variant of poll_write_entry that lets poll_write_vectored take all the
\* bytes of bufs.
poll_write_entry_unbounded(a, bufs, header) ==
    IF a.state.tag # "ReceivingData" THEN Rs(a, "Panic", "cannot write entry; invalid state")
    ELSE Then(poll_write_vectored(a, bufs, bytes_len(bufs), header), LAMBDA w :
        IF w.kind # "Ok" THEN w
        ELSE IF w.amt # a.state.rem THEN w
        ELSE last_bytes_written(a, bufs, w, header))

\* Archive::poll_write_entry: Ok with the count accepted in amt.
poll_write_entry(a, bufs, header) ==
    IF a.state.tag # "ReceivingData" THEN Rs(a, "Panic", "cannot write entry; invalid state")
    ELSE Then(poll_write_vectored(a, bufs, a.state.rem, header), LAMBDA w :
        IF w.kind # "Ok" THEN w
        ELSE IF w.amt # a.state.rem THEN w
        ELSE last_bytes_written(a, bufs, w, header))

\* io.poll_shutdown: the sink is ready to shut down.
sink_poll_shutdown(a) == Rs([a EXCEPT !.shut = TRUE], "Ok", "none")

\* io.poll_flush: the sink is ready to flush.
sink_poll_flush(a) == Rs(a, "Ok", "none")

\* Archive::poll_finish: the loop.  `idle` counts the iterations in a row
\* that moved no byte and left the state as it was; once the sink's whole
\* schedule has gone by that way the loop repeats itself for ever, which the
\* result "Diverges" records.
RECURSIVE poll_finish_loop(_, _)
poll_finish_loop(a, idle) ==
    IF idle > Len(a.sched) THEN Rs(a, "Diverges", "poll_finish does not return")
    ELSE
    CASE a.state.tag = "ExpectingHeader" ->
            Then(poll_write_data(a, Zeros(BLOCK_SIZE), None), LAMBDA w :
                IF w.kind # "Ok" THEN w ELSE poll_finish_loop(w.a, 0))
      [] \/ a.state.tag = "ReceivingHeader" /\ a.state.empty
         \/ a.state.tag = "ReceivingEof" ->
            Then(poll_write_data(a, Zeros(a.state.rem), None), LAMBDA w :
                IF w.kind # "Ok" THEN w
                ELSE poll_finish_loop(w.a, IF w.a.state = a.state THEN idle + 1 ELSE 0))
      [] a.state.tag = "ReceivedEof" ->
            Then(poll_flush_buffered(a), LAMBDA f :
                IF f.kind # "Ok" THEN f ELSE sink_poll_shutdown(f.a))
      [] OTHER -> Rs(a, "Panic", "cannot finish archive; invalid state")

\* A variant of poll_finish that writes the marker again once it is written.
poll_finish_again(a) ==
    poll_finish_loop(IF a.state = ReceivedEof THEN [a EXCEPT !.state = ExpectingHeader] ELSE a, 0)

\* A variant of poll_finish that refuses with OverlappingEntry, instead of
\* panicking, while payload or padding of an entry is outstanding.
poll_finish_refusing(a) ==
    IF a.state.tag \in {"ReceivingData", "AligningData"} THEN Rs(a, "Err", "OverlappingEntry")
    ELSE poll_finish_loop(a, 0)

poll_finish(a) == poll_finish_loop(a, 0)

\* Archive::poll_flush
poll_flush(a) ==
    Then(poll_flush_buffered(a), LAMBDA f :
        IF f.kind # "Ok" THEN f ELSE sink_poll_flush(f.a))

\* AsyncWrite::poll_shutdown for Entry
entry_poll_shutdown(a, header) ==
    Then(poll_finish_entry(a, header), LAMBDA f :
        IF f.kind # "Ok" THEN f ELSE poll_flush(f.a))

\* ------------------------------------------------------------------------
\* make_archive_data (test.rs): the archive of a list of entries.
\* ------------------------------------------------------------------------

\* Byte i (from 0) of the payload the callers write for header h: the
\* pattern of make_entry_data for path 1, zeros for the other paths.
PayloadOf(h, i) == IF h.path = 1 THEN PayloadByte(i) % 256 ELSE 0

\* The n bytes from offset off of that payload.
Offered(h, off, n) == [i \in 1..n |-> PayloadOf(h, off + i - 1)]

\* make_entry_data, given the payload: the payload padded to a whole block.
make_entry_data(data) == data \o Zeros(next_multiple_of(Len(data), BLOCK_SIZE) - Len(data))

make_eof_data == Zeros(2 * BLOCK_SIZE)

RECURSIVE make_entries_data(_)
make_entries_data(es) ==
    IF es = <<>> THEN <<>>
    ELSE as_bytes(Head(es).hdr) \o make_entry_data(Head(es).data) \o make_entries_data(Tail(es))

\* es: a sequence of [hdr, data].
make_archive_data(es) == make_entries_data(es) \o make_eof_data

\* ------------------------------------------------------------------------
\* The state of the model
\* ------------------------------------------------------------------------

VARIABLES
    phase,      \* "write": the archive is being written, "read": being read
    w,          \* Archive<W>: state, buf, io (the sink and its schedule)
    wentry,     \* the writer's caller holds an Entry handle
    wlog,       \* the entries opened by add_entry, with the payload accepted
    wres,       \* what the last call on the write side returned
    wfut,       \* the call that returned Pending and has not completed yet
    wdropped,   \* a pending future was dropped before it completed
    r,          \* Archive<R>: state, buf, io (the source and its schedule)
    rentry,     \* the reader's caller holds an Entry handle
    rlog,       \* the entries returned by next_entry, with the payload read
    rres,       \* what the last call on the read side returned
    rarch,      \* the entries the source was made of (for the claims only)
    rdisc,      \* the caller has kept to: next_entry, reads up to a 0-byte
                \* read or one skip, next_entry (for the claims only)
    rskips,     \* the caller has called skip (for the claims only)
    rabsent,    \* how many times next_entry has returned absence, up to
                \* MaxAbsences (for the claims only)
    sm,         \* a State on its own: the state, the slices still to be
                \* taken, the header at hand, the last call and its result
    sp          \* slices on their own: the list of slices, the last split
                \* made, what was split, and the prefix and suffix it gave

vars == <<phase, w, wentry, wlog, wres, wfut, wdropped, r, rentry, rlog, rres, rarch, rdisc, rskips,
          rabsent, sm, sp>>

wvars == <<w, wentry, wlog, wres, wfut, wdropped>>

rvars == <<r, rentry, rlog, rres, rarch, rdisc, rskips, rabsent>>

\* An io object that moves every byte it is offered (Vec<u8>, io::Cursor).
AllBytes == 16 * BLOCK_SIZE

\* Archive::with_capacity(io, blocks) over a sink
NewWriter(blocks, vectored, debug, sched) ==
    [state |-> ExpectingHeader, bytes |-> <<>>, pos |-> 0, capacity |-> blocks * BLOCK_SIZE,
     out |-> <<>>, vectored |-> vectored, debug |-> debug, shut |-> FALSE,
     sched |-> sched, k |-> 1]

\* Archive::with_capacity(io, blocks) over a source holding data.  `full`
\* records that every read of the source so far was given the whole buffer.
NewReader(blocks, data, sched) ==
    [state |-> ExpectingHeader, bytes |-> <<>>, pos |-> 0, capacity |-> blocks * BLOCK_SIZE,
     data |-> data, at |-> 0, sched |-> sched, k |-> 1, full |-> TRUE]

\* The buffer capacities of the tests, in blocks.
Capacities == {1, 10}

\* The headers of make_entry_header: a path and a size.  The i-th entry of
\* an archive has path i.
Headers == [some : {TRUE}, path : 1..MaxEntries, size : 0..MaxSize]

NoCall == [op |-> "none", kind |-> "Ok", err |-> "none", amt |-> 0, some |-> FALSE]

NoFut == [op |-> "none", hdr |-> None, n |-> 0, cut |-> 0]

\* A header block that leads to the state s: the bytes of the block under
\* way in ReceivingHeader, the block of the header in ReceivedHeader, the
\* first empty block in ReceivingEof and ReceivedEof.
BlockBehind(s) ==
    CASE s.tag = "ReceivingHeader" ->
            IF s.empty THEN Zeros(BLOCK_SIZE - s.rem)
            ELSE <<1>> \o Zeros(BLOCK_SIZE - s.rem - 1)
      [] s.tag = "ReceivedHeader" -> <<1>> \o Zeros(BLOCK_SIZE - 1)
      [] s.tag \in {"ReceivingEof", "ReceivedEof"} -> Zeros(BLOCK_SIZE)
      [] OTHER -> <<>>

\* A State that no call has been made on.  `block` holds the bytes taken so
\* far of the header block that was begun last.
Run(self, slices, header) ==
    [self |-> self, slices |-> slices, header |-> header, op |-> "none", res |-> SOk(self, 0),
     block |-> BlockBehind(self)]

NoRun == Run(ExpectingHeader, <<>>, None)

\* A list of slices that no split has been made of: as_prefix of the list
\* and Suffix::empty.
Unsplit(bufs) ==
    [bufs |-> bufs, op |-> "none", of |-> <<>>, n |-> 0,
     prefix |-> from_parts(bufs, <<>>), suffix |-> from_parts(<<>>, <<>>)]

NoSplit == Unsplit(<<>>)

Call(op, res) == [op |-> op, kind |-> res.kind, err |-> res.err, amt |-> res.amt, some |-> res.hdr.some]

Halted(res) == res.kind \in {"Panic", "Diverges"}

\* The header of the current entry handle, and its payload so far.
whdr == wlog[Len(wlog)].hdr

wdata == wlog[Len(wlog)].data

rhdr == rlog[Len(rlog)].hdr

\* ------------------------------------------------------------------------
\* The calls of the writer's caller.  A call is one poll of its future; a
\* call other than the pending one drops the pending future.
\* ------------------------------------------------------------------------

WriteCall(fut, res) ==
    /\ w' = res.a
    /\ wfut' = IF res.kind = "Pending" THEN fut ELSE NoFut
    /\ wdropped' = (wdropped \/ (wfut # NoFut /\ wfut # fut))
    /\ wres' = Call(fut.op, res)
    /\ UNCHANGED <<phase, rvars, sm, sp>>

\* Archive::add_entry(header)
AddEntry(h) ==
    /\ phase = "write" /\ ~Halted(wres)
    /\ Len(wlog) < MaxEntries /\ h.path = Len(wlog) + 1
    /\ \E res \in {poll_write_header(w, h)} :
           /\ WriteCall([op |-> "add_entry", hdr |-> h, n |-> 0, cut |-> 0], res)
           /\ wentry' = (res.kind = "Ok")
           /\ wlog' = IF res.kind = "Ok" THEN Append(wlog, [hdr |-> h, data |-> <<>>]) ELSE wlog

\* The buffers of a write of n bytes: one slice, or two slices cut at `cut`.
Bufs(bytes, cut) == IF cut = Len(bytes) THEN <<bytes>> ELSE <<Take(bytes, cut), Drop(bytes, cut)>>

\* AsyncWrite::poll_write / poll_write_vectored on the entry handle, with the
\* next n bytes of the payload.
WriteEntry(n, cut) ==
    /\ phase = "write" /\ ~Halted(wres)
    /\ wentry
    /\ \E res \in {poll_write_entry(w, Bufs(Offered(whdr, Len(wdata), n), cut), whdr)} :
           /\ WriteCall([op |-> "write", hdr |-> whdr, n |-> n, cut |-> cut], res)
           /\ wlog' = IF res.kind = "Ok"
                      THEN [wlog EXCEPT ![Len(wlog)].data =
                                            @ \o Offered(whdr, Len(wdata), res.amt)]
                      ELSE wlog
           /\ UNCHANGED wentry

\* Entry::finish (AsyncWrite::poll_shutdown on the entry handle)
FinishEntry ==
    /\ phase = "write" /\ ~Halted(wres)
    /\ wentry
    /\ WriteCall([op |-> "finish_entry", hdr |-> whdr, n |-> 0, cut |-> 0],
                 entry_poll_shutdown(w, whdr))
    /\ UNCHANGED <<wentry, wlog>>

\* Archive::finish
Finish ==
    /\ phase = "write" /\ ~Halted(wres)
    /\ WriteCall([op |-> "finish", hdr |-> None, n |-> 0, cut |-> 0], poll_finish(w))
    /\ wentry' = FALSE
    /\ UNCHANGED wlog

\* AsyncWrite::poll_flush on the entry handle
FlushEntry ==
    /\ phase = "write" /\ ~Halted(wres)
    /\ wentry
    /\ WriteCall([op |-> "flush", hdr |-> whdr, n |-> 0, cut |-> 0], poll_flush(w))
    /\ UNCHANGED <<wentry, wlog>>

\* ------------------------------------------------------------------------
\* The calls of the reader's caller.
\* ------------------------------------------------------------------------

\* The current entry has been read up to a 0-byte read, or skipped.
EntryEnded == rlog[Len(rlog)].eof \/ rlog[Len(rlog)].skipped

\* Archive::next_entry
NextEntry ==
    /\ phase = "read" /\ ~Halted(rres)
    /\ \E res \in {poll_next_entry(r)} :
           /\ r' = res.a
           /\ rres' = Call("next_entry", res)
           /\ rentry' = (res.kind = "Ok" /\ res.hdr.some)
           /\ rlog' = IF res.kind = "Ok" /\ res.hdr.some
                      THEN Append(rlog, [hdr |-> res.hdr, data |-> <<>>, eof |-> FALSE,
                                         skipped |-> FALSE])
                      ELSE rlog
           /\ rabsent' = IF res.kind = "Ok" /\ ~res.hdr.some
                         THEN Min(rabsent + 1, MaxAbsences) ELSE rabsent
    /\ rdisc' = (rdisc /\ (rentry => EntryEnded))
    /\ UNCHANGED <<phase, wvars, rarch, rskips, sm, sp>>

\* AsyncRead::poll_read on the entry handle, into a buffer of n bytes
ReadEntry(n) ==
    /\ phase = "read" /\ ~Halted(rres)
    /\ rentry
    /\ \E res \in {entry_poll_read(r, rhdr, n)} :
           /\ r' = res.a
           /\ rres' = [Call("read", res) EXCEPT !.amt = Len(res.data)]
           /\ rlog' = IF res.kind = "Ok"
                      THEN [rlog EXCEPT ![Len(rlog)].data = @ \o res.data,
                                        ![Len(rlog)].eof = (@ \/ res.data = <<>>)]
                      ELSE rlog
    /\ rdisc' = (rdisc /\ ~EntryEnded)
    /\ UNCHANGED <<phase, wvars, rentry, rarch, rskips, rabsent, sm, sp>>

\* Entry::skip
SkipEntry ==
    /\ phase = "read" /\ ~Halted(rres)
    /\ rentry
    /\ \E res \in {poll_skip_entry(r, rhdr)} :
           /\ r' = res.a
           /\ rres' = Call("skip", res)
           /\ rlog' = IF res.kind = "Ok" THEN [rlog EXCEPT ![Len(rlog)].skipped = TRUE] ELSE rlog
    /\ rdisc' = (rdisc /\ ~EntryEnded)
    /\ rskips' = TRUE
    /\ UNCHANGED <<phase, wvars, rentry, rarch, rabsent, sm, sp>>

\* Entry as an AsyncBufRead: fill_buf, then consume of amt bytes, at most as
\* many as the slice fill_buf returned.  An empty slice is the end of the entry.
FillConsume(amt) ==
    /\ phase = "read" /\ ~Halted(rres)
    /\ rentry
    /\ \E rd \in {poll_read_entry(r, rhdr)} :
           /\ rd.kind = "Ok" => amt <= Len(rd.data)
           /\ rlog' = IF rd.kind = "Ok"
                      THEN [rlog EXCEPT ![Len(rlog)].data = @ \o Take(rd.data, amt),
                                        ![Len(rlog)].eof = (@ \/ rd.data = <<>>)]
                      ELSE rlog
    /\ \E res \in {entry_fill_consume(r, rhdr, amt)} :
           /\ r' = res.a
           /\ rres' = [Call("consume", res) EXCEPT !.amt = amt]
    /\ rdisc' = (rdisc /\ ~EntryEnded)
    /\ UNCHANGED <<phase, wvars, rentry, rarch, rskips, rabsent, sm, sp>>

\* ------------------------------------------------------------------------
\* SpecW: the write driver under every caller and a range of sinks.
\* ------------------------------------------------------------------------

\* The schedules of the sinks: Vec<u8>, a sink that takes one byte a call, a
\* sink that is not ready every other call, a sink with short writes and a
\* sink that stalls (takes no byte).
SinkScheds ==
    { <<Moves(AllBytes)>>, <<Moves(1)>>, <<NotReady, Moves(AllBytes)>>,
      <<Moves(BLOCK_SIZE - 1), NotReady>>, <<Moves(0)>> }

\* The sizes of the payload writes of the caller, and where it cuts them.
WriteSizes == {0, 1, 2, MaxSize + 1}

Cuts(n) == {c \in {1, n} : c <= n}

IdleReader == NewReader(1, <<>>, <<Moves(AllBytes)>>)

IdleWriter == NewWriter(1, TRUE, TRUE, <<Moves(AllBytes)>>)

InitW ==
    /\ phase = "write"
    /\ w \in {NewWriter(c, v, d, s) : c \in Capacities, v \in BOOLEAN, d \in BOOLEAN, s \in SinkScheds}
    /\ wentry = FALSE /\ wlog = <<>> /\ wres = NoCall /\ wfut = NoFut /\ wdropped = FALSE
    /\ r = IdleReader /\ rentry = FALSE /\ rlog = <<>> /\ rres = NoCall /\ rarch = <<>>
    /\ rdisc = TRUE /\ rskips = FALSE /\ rabsent = 0 /\ sm = NoRun
    /\ sp = NoSplit

NextW ==
    \/ \E h \in Headers : AddEntry(h)
    \/ \E n \in WriteSizes : \E cut \in Cuts(n) : WriteEntry(n, cut)
    \/ FinishEntry
    \/ Finish

SpecW == InitW /\ [][NextW]_vars

\* ------------------------------------------------------------------------
\* SpecF: the write driver over sinks whose writes fail part of the time: a
\* failed write is one that accepts 0 bytes.
\* ------------------------------------------------------------------------

FailingScheds == { <<Moves(AllBytes), Moves(0)>>, <<Moves(0), Moves(1)>> }

InitF ==
    /\ phase = "write"
    /\ w \in {NewWriter(c, v, d, s) : c \in Capacities, v \in BOOLEAN, d \in BOOLEAN,
                                      s \in FailingScheds}
    /\ wentry = FALSE /\ wlog = <<>> /\ wres = NoCall /\ wfut = NoFut /\ wdropped = FALSE
    /\ r = IdleReader /\ rentry = FALSE /\ rlog = <<>> /\ rres = NoCall /\ rarch = <<>>
    /\ rdisc = TRUE /\ rskips = FALSE /\ rabsent = 0 /\ sm = NoRun
    /\ sp = NoSplit

SpecF == InitF /\ [][NextW]_vars

\* ------------------------------------------------------------------------
\* SpecL: the write driver over the sinks of SpecF, under a caller that
\* also flushes the entry.
\* ------------------------------------------------------------------------

NextL ==
    \/ NextW
    \/ FlushEntry

SpecL == InitF /\ [][NextL]_vars

\* ------------------------------------------------------------------------
\* SpecR: the read driver on valid archives, under every caller and a range
\* of sources.
\* ------------------------------------------------------------------------

\* The lists of at most n entries: entry i has path i, any size up to
\* MaxSize, and the payload the callers write for its header.
RECURSIVE EntryLists(_)
EntryLists(n) ==
    IF n = 0 THEN {<<>>}
    ELSE LET shorter == EntryLists(n - 1)
         IN  shorter \cup
             { Append(es, [hdr |-> h, data |-> Offered(h, 0, h.size)]) :
                 es \in {x \in shorter : Len(x) = n - 1},
                 h \in {x \in Headers : x.path = n} }

Archives == EntryLists(MaxEntries)

\* The schedules of the sources: io::Cursor, a source that delivers one byte
\* a call, a source that delivers less than a block and then the rest, and a
\* source that is not ready every other call.
SourceScheds ==
    { <<Moves(AllBytes)>>, <<Moves(1)>>, <<Moves(BLOCK_SIZE - 1), Moves(AllBytes)>>,
      <<NotReady, Moves(AllBytes)>> }

\* The sizes of the buffers the caller reads into.
ReadSizes == {1, BLOCK_SIZE}

InitReadSide(sources, scheds) ==
    /\ phase = "read"
    /\ \E c \in Capacities, src \in sources, s \in scheds :
          /\ r = NewReader(c, src.data, s)
          /\ rarch = src.es
    /\ rentry = FALSE /\ rlog = <<>> /\ rres = NoCall
    /\ rdisc = TRUE /\ rskips = FALSE /\ rabsent = 0 /\ sm = NoRun
    /\ sp = NoSplit
    /\ w = IdleWriter /\ wentry = FALSE /\ wlog = <<>> /\ wres = NoCall
    /\ wfut = NoFut /\ wdropped = FALSE

ValidSources == {[es |-> es, data |-> make_archive_data(es)] : es \in Archives}

InitR == InitReadSide(ValidSources, SourceScheds)

NextR ==
    \/ NextEntry
    \/ \E n \in ReadSizes : ReadEntry(n)
    \/ SkipEntry

SpecR == InitR /\ [][NextR]_vars

\* ------------------------------------------------------------------------
\* SpecB: the reader on a valid archive under a caller that also uses an
\* entry as an AsyncBufRead.
\* ------------------------------------------------------------------------

\* The amounts the caller passes to consume.
ConsumeSizes == 0..BLOCK_SIZE

NextB ==
    \/ NextR
    \/ \E amt \in ConsumeSizes : FillConsume(amt)

SpecB == InitR /\ [][NextB]_vars

\* ------------------------------------------------------------------------
\* SpecD: either driver under every caller: the write driver as in SpecW, or
\* the read driver on a valid archive as in SpecB.
\* ------------------------------------------------------------------------

InitD == InitW \/ InitR

NextD == NextW \/ NextB

SpecD == InitD /\ [][NextD]_vars

\* ------------------------------------------------------------------------
\* SpecT: read_archive of the reader's tests on a truncated archive.  The
\* source is an io::Cursor over the first bytes of a valid archive; the
\* caller calls next_entry, reads the entry up to a 0-byte read, calls
\* next_entry again, and returns at the first error.
\* ------------------------------------------------------------------------

CursorScheds == { <<Moves(AllBytes)>> }

TruncatedSources ==
    UNION { { [es |-> es, data |-> Take(make_archive_data(es), n)] :
                n \in 0..(Len(make_archive_data(es)) - 1) } : es \in Archives }

\* Before expect_eof has made its archive.
InitT ==
    /\ phase = "new"
    /\ r = IdleReader /\ rarch = <<>>
    /\ rentry = FALSE /\ rlog = <<>> /\ rres = NoCall
    /\ rdisc = TRUE /\ rskips = FALSE /\ rabsent = 0 /\ sm = NoRun
    /\ sp = NoSplit
    /\ w = IdleWriter /\ wentry = FALSE /\ wlog = <<>> /\ wres = NoCall
    /\ wfut = NoFut /\ wdropped = FALSE

\* expect_eof: Archive::with_capacity on a cursor over the truncated data
WithCapacity(cap, src) ==
    /\ phase = "new"
    /\ phase' = "read"
    /\ \E s \in CursorScheds : r' = NewReader(cap, src.data, s)
    /\ rarch' = src.es
    /\ UNCHANGED <<wvars, rentry, rlog, rres, rdisc, rskips, rabsent, sm, sp>>

CallerNextEntry ==
    /\ rres.kind # "Err"
    /\ rentry => EntryEnded
    /\ NextEntry

CallerReadEntry(n) ==
    /\ rres.kind # "Err"
    /\ rentry /\ ~EntryEnded
    /\ ReadEntry(n)

\* A step of read_archive.
CallerStep ==
    \/ CallerNextEntry
    \/ \E n \in ReadSizes : CallerReadEntry(n)

NextT ==
    \/ \E cap \in Capacities, src \in TruncatedSources : WithCapacity(cap, src)
    \/ CallerStep

SpecT == InitT /\ [][NextT]_vars

\* ------------------------------------------------------------------------
\* SpecE: the unexpected_eof test of the reader on a truncated archive.  The
\* caller calls next_entry and reads each entry with read_exact into a
\* buffer of the size of the entry; it returns at the first error.
\* ------------------------------------------------------------------------

InitE == InitReadSide(TruncatedSources, SourceScheds)

\* What read_exact has still to fill of its buffer.
ExactRemaining == rhdr.size - Len(rlog[Len(rlog)].data)

\* next_entry, once read_exact has returned Ok.
ExactNextEntry ==
    /\ rres.kind # "Err"
    /\ rentry => (ExactRemaining = 0 /\ ~EntryEnded)
    /\ NextEntry

\* A poll of read_exact: a read into the part of the buffer that is not yet
\* filled.  A read of 0 bytes fails read_exact.
ExactRead ==
    /\ rres.kind # "Err"
    /\ rentry /\ ExactRemaining > 0 /\ ~EntryEnded
    /\ ReadEntry(ExactRemaining)

NextE ==
    \/ ExactNextEntry
    \/ ExactRead

SpecE == InitE /\ [][NextE]_vars

\* ------------------------------------------------------------------------
\* SpecU: either driver where its io object runs dry: the write driver as in
\* SpecW (a sink that takes no byte among its sinks), or the read driver on
\* a truncated archive as in SpecE.
\* ------------------------------------------------------------------------

InitU == InitW \/ InitE

NextU == NextW \/ NextE

SpecU == InitU /\ [][NextU]_vars

\* ------------------------------------------------------------------------
\* SpecZ: the reader on a source whose entries are followed by something
\* that is or is not an end-of-archive marker: nothing, one zero block, a
\* zero block and a block with one non-zero byte, or two zero blocks, and
\* then possibly more bytes.
\* ------------------------------------------------------------------------

\* A block whose j-th byte alone is not zero.
MarkedBlock(j) == [i \in 1..BLOCK_SIZE |-> IF i = j THEN 1 ELSE 0]

Tails ==
    { <<>>, Zeros(BLOCK_SIZE), make_eof_data, make_eof_data \o <<1>> }
    \cup { Zeros(BLOCK_SIZE) \o MarkedBlock(j) : j \in 1..BLOCK_SIZE }
    \cup { Zeros(BLOCK_SIZE) \o MarkedBlock(j) \o Zeros(BLOCK_SIZE) : j \in {1, BLOCK_SIZE} }

MarkerSources ==
    { [es |-> es, data |-> make_entries_data(es) \o t] : es \in Archives, t \in Tails }

InitZ == InitReadSide(MarkerSources, SourceScheds)

SpecZ == InitZ /\ [][NextR]_vars

\* ------------------------------------------------------------------------
\* SpecC: the reader on a source in which the header block of the last entry
\* has a wrong checksum; what comes before and after it is as in a valid
\* archive.
\* ------------------------------------------------------------------------

\* The header block of h with another checksum byte.
bad_cksum_bytes(h) == [as_bytes(h) EXCEPT ![3] = (@ + 1) % 256]

\* es is not empty: the header block of its last entry is the bad one.
corrupt_archive_data(es) ==
    make_entries_data(SubSeq(es, 1, Len(es) - 1))
        \o bad_cksum_bytes(es[Len(es)].hdr) \o make_entry_data(es[Len(es)].data)
        \o make_eof_data

CorruptSources ==
    {[es |-> es, data |-> corrupt_archive_data(es)] : es \in Archives \ {<<>>}}

InitC == InitReadSide(CorruptSources, SourceScheds)

SpecC == InitC /\ [][NextR]_vars

\* ------------------------------------------------------------------------
\* SpecRT: write_archive of the writer's tests into a Vec, for any entries,
\* and then read_archive on a cursor over the bytes the Vec received.  The
\* caller writes the payload of an entry in writes that total its size.
\* ------------------------------------------------------------------------

\* The payload written for an entry is as long as its header says.
Complete(e) == Len(e.data) = e.hdr.size

AllComplete(es) == \A i \in 1..Len(es) : Complete(es[i])

InitRT ==
    /\ phase = "write"
    /\ w \in {NewWriter(c, v, d, s) : c \in Capacities, v \in BOOLEAN, d \in BOOLEAN,
                                      s \in CursorScheds}
    /\ wentry = FALSE /\ wlog = <<>> /\ wres = NoCall /\ wfut = NoFut /\ wdropped = FALSE
    /\ r = IdleReader /\ rentry = FALSE /\ rlog = <<>> /\ rres = NoCall /\ rarch = <<>>
    /\ rdisc = TRUE /\ rskips = FALSE /\ rabsent = 0 /\ sm = NoRun
    /\ sp = NoSplit

CallerAddEntry(h) ==
    /\ wres.kind = "Ok" /\ wres.op # "finish"
    /\ AllComplete(wlog)
    /\ AddEntry(h)

CallerWriteEntry(n) ==
    /\ wres.kind = "Ok" /\ wres.op # "finish"
    /\ wentry
    /\ n \in 1..(whdr.size - Len(wdata))
    /\ WriteEntry(n, n)

CallerFinish ==
    /\ wres.kind = "Ok" /\ wres.op # "finish"
    /\ AllComplete(wlog)
    /\ Finish

\* The bytes the sink has received become the source of a reader.
Handoff(cap) ==
    /\ phase = "write" /\ wres.op = "finish" /\ wres.kind = "Ok"
    /\ phase' = "read"
    /\ \E s \in CursorScheds : r' = NewReader(cap, w.out, s)
    /\ rarch' = wlog
    /\ UNCHANGED <<wvars, rentry, rlog, rres, rdisc, rskips, rabsent, sm, sp>>

NextRT ==
    \/ \E h \in Headers : CallerAddEntry(h)
    \/ \E n \in 1..MaxSize : CallerWriteEntry(n)
    \/ CallerFinish
    \/ \E cap \in Capacities : Handoff(cap)
    \/ CallerStep

SpecRT == InitRT /\ [][NextRT]_vars

\* ------------------------------------------------------------------------
\* SpecS: a State on its own (the tests of state.rs): any state the drivers
\* can hold, any slices, and calls of next, take_marker, take_until and
\* take_slices with any header, each on what the call before has left.
\* ------------------------------------------------------------------------

SmStates ==
    {ExpectingHeader, ReceivedHeader, ReceivedData, AlignedData, ReceivedEof}
    \cup {ReceivingHeader(n, e) : n \in 1..(BLOCK_SIZE - 1), e \in BOOLEAN}
    \cup {ReceivingHeader(BLOCK_SIZE, TRUE)}
    \cup {ReceivingData(n) : n \in 0..MaxSize}
    \cup {AligningData(n) : n \in 0..(BLOCK_SIZE - 1)}
    \cup {ReceivingEof(n) : n \in 1..BLOCK_SIZE}

SmHeaders == {None, [some |-> TRUE, path |-> 1, size |-> 0], [some |-> TRUE, path |-> 1, size |-> MaxSize]}

SmSlices ==
    { <<>>, <<0>>, <<1>>, <<0, 1>>, Zeros(BLOCK_SIZE - 1), Zeros(BLOCK_SIZE) \o <<1>>,
      Zeros(2 * BLOCK_SIZE) \o <<1>>,
      as_bytes([some |-> TRUE, path |-> 1, size |-> MaxSize]) \o Zeros(MaxSize) }

SmInputs == {<<>>} \cup {<<a>> : a \in SmSlices} \cup {<<a, b>> : a, b \in SmSlices}

\* What is left of the slices once n bytes of them have been taken.
RECURSIVE DropBytes(_, _)
DropBytes(slices, n) ==
    IF n = 0 \/ slices = <<>> THEN slices
    ELSE IF n >= Len(Head(slices)) THEN DropBytes(Tail(slices), n - Len(Head(slices)))
    ELSE <<Drop(Head(slices), n)>> \o Tail(slices)

\* The slice a call on one buffer is given: the first of those left.
FirstSlice == IF sm.slices = <<>> THEN <<>> ELSE Head(sm.slices)

InitS ==
    /\ phase = "state"
    /\ \E self \in SmStates, slices \in SmInputs : sm = Run(self, slices, None)
    /\ sp = NoSplit
    /\ w = IdleWriter /\ wentry = FALSE /\ wlog = <<>> /\ wres = NoCall
    /\ wfut = NoFut /\ wdropped = FALSE
    /\ r = IdleReader /\ rentry = FALSE /\ rlog = <<>> /\ rres = NoCall /\ rarch = <<>>
    /\ rdisc = TRUE /\ rskips = FALSE /\ rabsent = 0

LastN(s, n) == SubSeq(s, Len(s) - n + 1, Len(s))

DropLast(s, n) == SubSeq(s, 1, Len(s) - n)

\* The bytes of the header block begun last, once a call has taken the bytes
\* `taken` and moved from the state s, with `block` behind it, to the state t.
BlockAfter(s, block, taken, t) ==
    IF s.tag \in {"ReceivingEof", "ReceivedEof"} THEN block
    ELSE LET hist == (IF s.tag \in {"ReceivingHeader", "ReceivedHeader"} THEN block ELSE <<>>)
                         \o taken
         IN  CASE t.tag = "ReceivingHeader" -> LastN(hist, BLOCK_SIZE - t.rem)
               [] t.tag = "ReceivedHeader" -> LastN(hist, BLOCK_SIZE)
               [] t.tag = "ReceivingEof" -> LastN(DropLast(hist, BLOCK_SIZE - t.rem), BLOCK_SIZE)
               [] t.tag = "ReceivedEof" -> LastN(DropLast(hist, BLOCK_SIZE), BLOCK_SIZE)
               [] OTHER -> <<>>

\* A call has returned res: on Ok the state is replaced and the bytes taken
\* are gone from the slices.
Returned(op, header, res) ==
    /\ phase = "state" /\ sm.res.res # "Panic"
    /\ sm' = [self |-> IF res.res = "Ok" THEN res.state ELSE sm.self,
              slices |-> IF res.res = "Ok" THEN DropBytes(sm.slices, res.n) ELSE sm.slices,
              header |-> header, op |-> op, res |-> res,
              block |-> IF res.res = "Ok"
                        THEN BlockAfter(sm.self, sm.block, Take(Concat(sm.slices), res.n),
                                        res.state)
                        ELSE sm.block]
    /\ UNCHANGED <<phase, wvars, rvars, sp>>

CallNext(header) == Returned("next", header, next(sm.self, FirstSlice, header))

CallTakeMarker(header) == Returned("take_marker", header, take_marker(sm.self, header))

CallTakeUntil(header) ==
    Returned("take_until", header, take_until(sm.self, StopStates, FirstSlice, header))

CallTakeSlices(header) ==
    Returned("take_slices", header, take_slices(sm.self, sm.slices, header))

NextS ==
    \/ \E header \in SmHeaders : CallNext(header)
    \/ \E header \in SmHeaders : CallTakeMarker(header)
    \/ \E header \in SmHeaders : CallTakeUntil(header)
    \/ \E header \in SmHeaders : CallTakeSlices(header)

SpecS == InitS /\ [][NextS]_vars

\* ------------------------------------------------------------------------
\* SpecP: slices on their own (the tests of slices.rs): a list of slices,
\* empty ones among them, split at any byte offset, and the prefix of the
\* last split split again at any byte offset.
\* ------------------------------------------------------------------------

\* The slices of the lists: none of their bytes occurs twice.
SliceBufs == { <<>>, <<1>>, <<2, 3>>, <<4, 5, 6>> }

SliceLists ==
    {<<>>} \cup {<<a>> : a \in SliceBufs} \cup {<<a, b>> : a, b \in SliceBufs}
        \cup {<<a, b, c>> : a, b, c \in SliceBufs}

\* The byte offsets of the splits: up to one more than the longest list.
Offsets == 0..7

InitP ==
    /\ phase = "slices"
    /\ \E bufs \in SliceLists : sp = Unsplit(bufs)
    /\ sm = NoRun
    /\ w = IdleWriter /\ wentry = FALSE /\ wlog = <<>> /\ wres = NoCall
    /\ wfut = NoFut /\ wdropped = FALSE
    /\ r = IdleReader /\ rentry = FALSE /\ rlog = <<>> /\ rres = NoCall /\ rarch = <<>>
    /\ rdisc = TRUE /\ rskips = FALSE /\ rabsent = 0

\* A split of `of` at n has returned (prefix, suffix).
SplitReturned(op, of, n, res) ==
    /\ phase = "slices"
    /\ sp' = [sp EXCEPT !.op = op, !.of = of, !.n = n,
                        !.prefix = res.prefix, !.suffix = res.suffix]
    /\ UNCHANGED <<phase, wvars, rvars, sm>>

\* bufs.split_at_byte_offset(n) on the list of slices
SplitSlices(n) ==
    SplitReturned("slices", sp.bufs, n, slices_split_at_byte_offset(sp.bufs, n))

\* prefix.split_at_byte_offset(n) on the prefix of the last split
SplitPrefix(n) ==
    SplitReturned("prefix", prefix_iter_slices(sp.prefix), n,
                  prefix_split_at_byte_offset(sp.prefix, n))

NextP ==
    \/ \E n \in Offsets : SplitSlices(n)
    \/ \E n \in Offsets : SplitPrefix(n)

SpecP == InitP /\ [][NextP]_vars

\* ------------------------------------------------------------------------
\* Claims about the slice utilities
\* ------------------------------------------------------------------------

\* The byte offset n is at the end of one of the slices, or at the start.
RECURSIVE OnBoundary(_, _)
OnBoundary(slices, n) ==
    \/ n = 0
    \/ slices # <<>> /\ n >= Len(Head(slices)) /\ OnBoundary(Tail(slices), n - Len(Head(slices)))

\* The split of the slices `of` at n gave prefix and suffix.
SplitsBytes(of, n, prefix, suffix) ==
    /\ Concat(prefix_iter_slices(prefix)) = Take(Concat(of), n)
    /\ Concat(suffix_iter_slices(suffix)) = Drop(Concat(of), n)
    /\ Concat(prefix_iter_slices(prefix)) \o Concat(suffix_iter_slices(suffix)) = Concat(of)
    /\ OnBoundary(of, n) => (prefix.remainder = <<>> /\ suffix.remainder = <<>>)

\* C33: split_at_byte_offset(n), of a list of slices and of a Prefix, gives
\* a prefix that holds the first min(n, total) bytes and a suffix that holds
\* the bytes after them, so that prefix and suffix together hold the bytes
\* that were split; at the end of a slice both remainders are empty.
C33_SliceSplitting == sp.op # "none" => SplitsBytes(sp.of, sp.n, sp.prefix, sp.suffix)

\* ------------------------------------------------------------------------
\* Claims about the state machine
\* ------------------------------------------------------------------------

\* The states that count the bytes left of a part of the archive.
CountingTags == {"ReceivingHeader", "ReceivingData", "AligningData", "ReceivingEof"}

\* The states that follow a counting state whose counter has reached 0.
Following(s) ==
    CASE s.tag = "ReceivingHeader" -> {ReceivedHeader, ReceivingEof(BLOCK_SIZE)}
      [] s.tag = "ReceivingData" -> {ReceivedData}
      [] s.tag = "AligningData" -> {AlignedData}
      [] OTHER -> {ReceivedEof}

\* next has returned Ok((t, n)) on the state s and the buffer buf.
NextWithinBoundary(s, buf, t, n) ==
    IF s.tag \in CountingTags
    THEN /\ n = Min(s.rem, Len(buf))
         /\ IF s.rem - n = 0 THEN t \in Following(s)
            ELSE t.tag = s.tag /\ t.rem = s.rem - n
    ELSE n = 0

\* C28: State::next consumes min(rem, len(buf)) bytes in the states that
\* count, leaves the counter at rem less what it consumed, and moves to the
\* following state exactly when the counter reaches 0; in ExpectingHeader,
\* ReceivedHeader, ReceivedData and AlignedData it consumes nothing.
C28_NextBoundary ==
    [][\A header \in SmHeaders :
          (CallNext(header) /\ sm'.res.res = "Ok") =>
              NextWithinBoundary(sm.self, FirstSlice, sm'.res.state, sm'.res.n)]_vars

\* next has moved from ReceivingData(MaxSize) to ReceivedData on a buffer
\* that holds more than the payload, and consumed MaxSize bytes of it.
C28_Witness ==
    /\ sm.op = "next" /\ sm.res.res = "Ok" /\ sm.res.n = MaxSize
    /\ sm.self = ReceivedData
    /\ sm.slices # <<>> /\ Len(Head(sm.slices)) >= 1

\* C29: the block at a header position leads to ReceivingEof(BLOCK_SIZE)
\* if and only if all its bytes are zero and to ReceivedHeader otherwise,
\* however the calls split it: the flag of ReceivingHeader(rem, flag) is
\* true exactly when the bytes of the block taken so far are all zero.
C29_EmptyBlock ==
    /\ sm.self.tag = "ReceivingHeader" =>
          /\ Len(sm.block) = BLOCK_SIZE - sm.self.rem
          /\ sm.self.empty <=> AllZero(sm.block)
    /\ sm.self.tag = "ReceivedHeader" => (Len(sm.block) = BLOCK_SIZE /\ ~AllZero(sm.block))
    /\ sm.self.tag \in {"ReceivingEof", "ReceivedEof"} =>
          (Len(sm.block) = BLOCK_SIZE /\ AllZero(sm.block))

\* A block of zeros that ends in a 1 has been taken in two calls, and the
\* state is ReceivedHeader.
C29_Witness ==
    /\ sm.self = ReceivedHeader /\ sm.op = "next" /\ sm.res.res = "Ok" /\ sm.res.n = 1
    /\ sm.block = Zeros(BLOCK_SIZE - 1) \o <<1>>

\* take_slices has returned Ok((t, n)) on the state self and the slices:
\* it has taken all the bytes or stopped in ReceivedHeader or ReceivedEof,
\* and no shorter run of the bytes it has taken leads to one of the two.
StopsAtBoundary(self, slices, header, t, n) ==
    /\ n <= bytes_len(slices)
    /\ t \notin StopStates => n = bytes_len(slices)
    /\ \A k \in 0..(n - 1) :
          take_slices(self, <<Take(Concat(slices), k)>>, header).state \notin StopStates

\* C30: take_slices consumes no byte beyond the point where the state
\* becomes ReceivedHeader or ReceivedEof and returns that state with the
\* count up to there, the rest of the slices left alone; otherwise it
\* consumes every byte of every slice.
C30_TakeSlicesStops ==
    [][\A header \in SmHeaders :
          (CallTakeSlices(header) /\ sm'.res.res = "Ok") =>
              /\ StopsAtBoundary(sm.self, sm.slices, header, sm'.res.state, sm'.res.n)
              /\ Concat(sm'.slices) = Drop(Concat(sm.slices), sm'.res.n)]_vars

\* take_slices has stopped in ReceivedHeader at the end of the block of a
\* header, with the payload that follows it in the slice left unconsumed.
C30_Witness ==
    /\ sm.op = "take_slices" /\ sm.res.res = "Ok" /\ sm.res.state = ReceivedHeader
    /\ sm.res.n = BLOCK_SIZE /\ sm.self = ReceivedHeader
    /\ sm.slices # <<>> /\ Head(sm.slices) = Zeros(MaxSize)

\* C15: in ReceivedEof every call of next, take_marker, take_until and
\* take_slices, on any slices (none and empty ones too), returns the error
\* Eof, of kind InvalidData, and leaves the state and the slices as they were.
C15_TerminalSafety ==
    [][(NextS /\ sm.self = ReceivedEof) =>
          /\ sm'.res.res = "Err" /\ sm'.res.err = "Eof"
          /\ error_kind(sm'.res.err) = "InvalidData"
          /\ sm'.self = ReceivedEof /\ sm'.slices = sm.slices]_vars

\* C15 happens: take_marker has failed in ReceivedEof, with a slice of one
\* non-zero byte still to be taken.
C15_Witness ==
    /\ sm.self = ReceivedEof /\ sm.op = "take_marker"
    /\ sm.res.res = "Err"
    /\ sm.slices = <<<<1>>>>

\* ------------------------------------------------------------------------
\* Claims about the write driver
\* ------------------------------------------------------------------------

RECURSIVE LayoutLen(_)
LayoutLen(es) ==
    IF es = <<>> THEN 2 * BLOCK_SIZE
    ELSE BLOCK_SIZE + next_multiple_of(Head(es).hdr.size, BLOCK_SIZE) + LayoutLen(Tail(es))

FinishedOk == wres.op = "finish" /\ wres.kind = "Ok"

\* C3: when every entry has been written completely and finish has returned
\* Ok, the sink holds, entry by entry, the header block, the payload and the
\* zero padding up to the next block, then two zero blocks; its length is the
\* sum of BLOCK_SIZE + nextMultipleOf(size) over the entries plus two blocks.
C3_WriterLayout ==
    (FinishedOk /\ AllComplete(wlog)) =>
        /\ w.out = make_archive_data(wlog)
        /\ Len(w.out) = LayoutLen(wlog)

\* C3 happens: two entries, neither a multiple of the block, the first longer
\* than a block, written completely and finished.
C3_Witness ==
    /\ FinishedOk /\ AllComplete(wlog)
    /\ Len(wlog) = 2
    /\ wlog[1].hdr.size = BLOCK_SIZE + 1
    /\ wlog[2].hdr.size = 1

\* The states in which another entry is in flight.
OverlapTags == {"ReceivingData", "ReceivedData", "AligningData", "AlignedData"}

\* C8: add_entry called in ReceivingData, ReceivedData, AligningData or
\* AlignedData returns the error OverlappingEntry, of kind Unsupported, and
\* leaves the archive (state, buffer, sink) as it was.
C8_OverlappingRejected ==
    [][\A h \in Headers :
          (AddEntry(h) /\ w.state.tag \in OverlapTags) =>
              /\ wres'.kind = "Err" /\ wres'.err = "OverlappingEntry"
              /\ error_kind(wres'.err) = "Unsupported"
              /\ w' = w]_vars

\* C8 happens: add_entry has been rejected while part of the payload of the
\* entry before was still to come.
C8_Witness ==
    /\ wres.op = "add_entry" /\ wres.kind = "Err"
    /\ w.state.tag = "ReceivingData" /\ w.state.rem > 0
    /\ Len(wlog) = 1 /\ Len(wdata) > 0

\* The call before opened an entry of entry_size 0.
JustOpenedEmpty == wres.op = "add_entry" /\ wres.kind = "Ok" /\ whdr.size = 0

\* C9: right after add_entry has returned for a header of entry_size 0, an
\* add_entry, a finish or an entry finish neither panics nor fails with
\* OverlappingEntry.
C9_EmptyEntryAccepted ==
    [][(JustOpenedEmpty /\ wres'.op \in {"add_entry", "finish", "finish_entry"}) =>
          (wres'.kind # "Panic" /\ wres'.err # "OverlappingEntry")]_vars

\* The bytes the write driver has accepted: those delivered to the sink and
\* those held in its buffer.
Accepted(a) == a.out \o buffered_bytes(a)

\* A payload write that returns Ready(Ok) with the whole of the remaining
\* payload count.
CompletingWrite(n, cut) ==
    /\ WriteEntry(n, cut)
    /\ w.state.tag = "ReceivingData"
    /\ wres'.kind = "Ok" /\ wres'.amt = w.state.rem

\* C12: a payload write that brings the remaining payload count to 0 and
\* returns ready leaves the state ExpectingHeader with the payload bytes and
\* the alignment padding accepted after what was accepted before; no payload
\* write returns with the state ReceivedData.
C12_AutoCompletion ==
    [][\A n \in WriteSizes : \A cut \in Cuts(n) :
          /\ (WriteEntry(n, cut) /\ ~Halted(wres')) => w'.state # ReceivedData
          /\ CompletingWrite(n, cut) =>
                /\ w'.state = ExpectingHeader
                /\ Accepted(w') = Accepted(w) \o Offered(whdr, Len(wdata), wres'.amt)
                                     \o Zeros(alignment(whdr.size))]_vars

\* C13: finish called while payload of an entry is outstanding (state
\* ReceivingData(rem) with rem > 0) returns the error OverlappingEntry and
\* accepts no byte.
C13_FinishOverlapping ==
    [][(Finish /\ w.state.tag = "ReceivingData" /\ w.state.rem > 0) =>
          /\ wres'.kind = "Err" /\ wres'.err = "OverlappingEntry"
          /\ Accepted(w') = Accepted(w)]_vars

\* finish has completed: the marker is written and the buffer is flushed.
FinishCompleted == w.state = ReceivedEof /\ buffered_bytes(w) = <<>>

\* C18: once finish has completed, no call delivers a byte to the sink:
\* add_entry panics or fails, and finish and flush write nothing.
C18_IdempotentFinish ==
    [][(FinishCompleted /\ NextW) =>
          /\ w'.out = w.out
          /\ (\E h \in Headers : AddEntry(h)) => wres'.kind \in {"Panic", "Err"}
          /\ Finish => wres'.kind \in {"Ok", "Pending"}
          /\ poll_flush(w).a.out = w.out]_vars

\* add_entry has panicked on an archive of one entry that was finished.
C18_Witness ==
    /\ FinishCompleted
    /\ wres.op = "add_entry" /\ wres.kind = "Panic"
    /\ Len(wlog) = 1 /\ Len(w.out) >= 3 * BLOCK_SIZE

IsPrefix(s, t) == Len(s) <= Len(t) /\ s = Take(t, Len(s))

\* The caller polls again the future that returned not-ready.
RePoll ==
    /\ wfut # NoFut
    /\ CASE wfut.op = "add_entry" -> AddEntry(wfut.hdr)
         [] wfut.op = "write" -> WriteEntry(wfut.n, wfut.cut)
         [] wfut.op = "finish_entry" -> FinishEntry
         [] OTHER -> Finish

\* C20: a write poll that returned not-ready can be polled again with the
\* same arguments: the poll does not panic and what the driver has accepted
\* is kept in order; and a payload write that returns not-ready has neither
\* accepted bytes nor advanced the state.
C20_Restartable ==
    [][/\ RePoll => (wres'.kind # "Panic" /\ IsPrefix(Accepted(w), Accepted(w')))
       /\ \A n \in WriteSizes : \A cut \in Cuts(n) :
             (WriteEntry(n, cut) /\ wres'.kind = "Pending") =>
                 (w'.state = w.state /\ Accepted(w') = Accepted(w))]_vars

\* The header in the block that ends a sequence of bytes.
LastBlockHeader(seen) ==
    [some |-> TRUE, path |-> seen[Len(seen) - BLOCK_SIZE + 1], size |-> seen[Len(seen) - BLOCK_SIZE + 2]]

\* The state machine fed from `state` with the bytes `rest`, after `seen`,
\* for as long as a step consumes a byte or changes the state; hdr is the
\* header of the last header block fed.
RECURSIVE Feed(_, _, _, _)
Feed(state, seen, rest, hdr) ==
    Then(next(state, rest, hdr), LAMBDA nx :
        IF nx.res # "Ok" \/ (nx.state = state /\ nx.n = 0)
        THEN [state |-> state, hdr |-> hdr, rest |-> rest]
        ELSE Feed(nx.state, seen \o Take(rest, nx.n), Drop(rest, nx.n),
                  IF nx.state = ReceivedHeader
                  THEN LastBlockHeader(seen \o Take(rest, nx.n)) ELSE hdr))

\* The state of the writer is the one that the bytes it has accepted lead
\* to, up to the steps that consume nothing.
StateMatchesBytes(a) ==
    Then(Feed(ExpectingHeader, <<>>, Accepted(a), None), LAMBDA fed :
        /\ fed.rest = <<>>
        /\ Feed(a.state, <<>>, <<>>, fed.hdr).state = fed.state)

\* A poll has returned not-ready in the middle of a block, after the caller
\* dropped a pending future, with bytes both in the sink and in the buffer.
C21_Witness ==
    /\ wres.kind = "Pending" /\ wdropped
    /\ Len(Accepted(w)) % BLOCK_SIZE # 0
    /\ w.out # <<>> /\ buffered_bytes(w) # <<>>
    /\ StateMatchesBytes(w)

\* C21: at every return of a write poll the state is the state reached by
\* feeding the state machine the bytes accepted so far, those in the buffer
\* and those delivered to the sink.
C21_StateByteConsistency == ~Halted(wres) => StateMatchesBytes(w)

\* What the writer has accepted after the step is what it had accepted
\* before it, followed by the first bytes of `offer`.
Extends(offer) == \E k \in 0..Len(offer) : Accepted(w') = Accepted(w) \o Take(offer, k)

\* The bytes add_entry offers of the block of h: all of it, or the last rem
\* bytes in ReceivingHeader(rem, false).
HeaderOffer(h) ==
    IF w.state.tag = "ReceivingHeader" /\ ~w.state.empty
    THEN Drop(as_bytes(h), BLOCK_SIZE - w.state.rem) ELSE as_bytes(h)

\* A payload write of a block or more has been passed through to a sink
\* with vectored writes, behind a buffer of one block, after the header.
C22_Witness ==
    /\ wres.op = "write" /\ wres.kind = "Ok" /\ wres.amt >= BLOCK_SIZE
    /\ w.capacity = BLOCK_SIZE /\ w.vectored
    /\ Len(wlog) = 1
    /\ IsPrefix(as_bytes(whdr) \o Take(wdata, BLOCK_SIZE), w.out)

\* C22: the bytes delivered to the sink followed by the bytes in the buffer
\* are the bytes the driver has accepted, in the order it accepted them: each
\* call appends the first bytes of what it offers (of a payload, no more
\* than the entry has left), and nothing else changes.
C22_SinkOrdering ==
    [][/\ \A h \in Headers : AddEntry(h) => Extends(HeaderOffer(h))
       /\ \A n \in WriteSizes : \A cut \in Cuts(n) :
             WriteEntry(n, cut) =>
                 Extends(Offered(whdr, Len(wdata), Min(n, w.state.rem))
                             \o Zeros(alignment(whdr.size)))
       /\ FinishEntry => Extends(Zeros(BLOCK_SIZE))
       /\ Finish => Extends(Zeros(2 * BLOCK_SIZE))
       /\ IsPrefix(w.out, w'.out)]_vars

\* How many bytes of the header block under way the writer has accepted.
HeaderSoFar == IF w.state.tag = "ReceivingHeader" THEN BLOCK_SIZE - w.state.rem ELSE 0

\* The writer is at the start of a header block, or in ReceivingHeader(rem,
\* false) with the first bytes of the block of h accepted.
ResumesHeader(h) ==
    \/ w.state = ExpectingHeader
    \/ /\ w.state.tag = "ReceivingHeader" /\ ~w.state.empty
       /\ Drop(Accepted(w), Len(Accepted(w)) - HeaderSoFar) = Take(as_bytes(h), HeaderSoFar)

\* C24: add_entry resumes a header block that the sink took in part from
\* ReceivingHeader(rem, false) with the last rem bytes of the header; under
\* every schedule of the sink it does not panic, and when it returns Ok the
\* block has been accepted once, in order, and the state is
\* ReceivingData(entry_size).
C24_HeaderShortWrites ==
    [][\A h \in Headers : (ResumesHeader(h) /\ AddEntry(h)) =>
          /\ wres'.kind # "Panic"
          /\ Extends(HeaderOffer(h))
          /\ wres'.kind = "Ok" =>
                /\ w'.state = ReceivingData(entry_size(h))
                /\ Accepted(w') = Take(Accepted(w), Len(Accepted(w)) - HeaderSoFar) \o as_bytes(h)]_vars

\* add_entry has returned Ok after it resumed a header block of which the
\* sink had taken BLOCK_SIZE - 1 bytes.
C24_Witness ==
    /\ wres.op = "add_entry" /\ wres.kind = "Ok" /\ Len(wlog) = 1
    /\ w.state = ReceivingData(whdr.size)
    /\ w.out = Take(as_bytes(whdr), BLOCK_SIZE - 1)
    /\ buffered_bytes(w) = Drop(as_bytes(whdr), BLOCK_SIZE - 1)

\* The sink accepts 0 bytes in every call.
StalledSink == w.sched = <<Moves(0)>>

\* C25: under a sink that keeps accepting 0 bytes, finish and the finish of
\* an entry return after finitely many calls of the sink, with a WriteZero
\* error whenever bytes are left to deliver.
C25_FinishTerminates ==
    [][(StalledSink /\ (Finish \/ FinishEntry)) =>
          /\ wres'.kind # "Diverges"
          /\ wres'.kind = "Err" => wres'.err = "WriteZero"
          /\ wres'.kind = "Ok" => buffered_bytes(w') = <<>>]_vars

\* The panics of poll_write_vectored: the two assert_eq and the expect.
WriteVectoredPanics ==
    { "assertion failed: next.1 == prefix_len",
      "this slice should have already been checked",
      "assertion failed: next.1 == bytes_written" }

\* C26: in every call of add_entry, of a payload write, of the finish of an
\* entry and of finish, the pre-validation of poll_write_vectored consumes
\* prefix_len bytes and the replay after a short write consumes
\* bytes_written: neither assert_eq nor the expect fires.
C26_PreValidation == ~(wres.kind = "Panic" /\ wres.err \in WriteVectoredPanics)

\* A payload write of which the sink took one byte has returned, after the
\* replay over that byte.
C26_Witness ==
    /\ wres.op = "write" /\ wres.kind = "Ok" /\ wres.amt = 1
    /\ w.sched = <<Moves(1)>> /\ w.capacity = BLOCK_SIZE /\ w.vectored
    /\ whdr.size = MaxSize /\ w.state = ReceivingData(MaxSize - 1)
    /\ buffered_bytes(w) = <<>>

\* ------------------------------------------------------------------------
\* Claims about the read driver
\* ------------------------------------------------------------------------

Absence == rres.op = "next_entry" /\ rres.kind = "Ok" /\ ~rres.some

Failed(res) == res.kind \in {"Err", "Panic", "Diverges"}

\* What has been returned so far is what the archive holds: the entries in
\* order, of each the payload bytes in order, all of them once the entry has
\* returned a 0-byte read, and every entry once next_entry has returned
\* absence.
LogMatches ==
    /\ Len(rlog) <= Len(rarch)
    /\ \A i \in 1..Len(rlog) :
          /\ rlog[i].hdr = rarch[i].hdr
          /\ IsPrefix(rlog[i].data, rarch[i].data)
          /\ rlog[i].eof => rlog[i].data = rarch[i].data
    /\ Absence => Len(rlog) = Len(rarch)

\* C2: for a valid archive and every schedule of source reads, a caller that
\* alternates next_entry with reads up to the 0-byte read gets no error and
\* no panic, and gets the entries and payload bytes of the archive.
C2_Incremental ==
    (rdisc /\ ~rskips) => (~Failed(rres) /\ LogMatches)

RECURSIVE SumLen(_)
SumLen(es) == IF es = <<>> THEN 0 ELSE Len(Head(es).data) + SumLen(Tail(es))

RECURSIVE SumSize(_)
SumSize(es) == IF es = <<>> THEN 0 ELSE Head(es).hdr.size + SumSize(Tail(es))

\* C4: for a caller that only reads (never skips), of every entry next_entry
\* has returned the bytes the reads have returned are the first bytes of its
\* payload, in order, and all entry_size of them once a read has returned 0
\* bytes; when every entry has been read to its end, the bytes returned sum
\* to the sum of the sizes.
C4_PayloadExact ==
    ~rskips =>
        /\ \A i \in 1..Len(rlog) :
              /\ rlog[i].hdr = rarch[i].hdr
              /\ IsPrefix(rlog[i].data, Offered(rlog[i].hdr, 0, rlog[i].hdr.size))
              /\ rlog[i].eof => Len(rlog[i].data) = rlog[i].hdr.size
        /\ (Absence /\ rdisc) => SumLen(rlog) = SumSize(rarch)

\* C4 happens: two entries, the first longer than a block, have been read to
\* their ends in several reads and next_entry has returned absence.
C4_Witness ==
    /\ Absence /\ rdisc /\ ~rskips
    /\ Len(rlog) = 2
    /\ rlog[1].hdr.size = BLOCK_SIZE + 1 /\ rlog[1].eof
    /\ rlog[2].hdr.size = BLOCK_SIZE - 1 /\ rlog[2].eof
    /\ r.capacity = BLOCK_SIZE

\* An entry of entry_size 0 is open and has been neither read nor skipped.
EmptyEntryOpen == rentry /\ rhdr.size = 0 /\ ~EntryEnded /\ rres.op = "next_entry"

\* C10: for an entry of entry_size 0 that has just been returned, skip and
\* next_entry neither fail nor panic, and skip returns Ok only with the
\* state ExpectingHeader.
C10_EmptyEntryRead ==
    [][(EmptyEntryOpen /\ rres'.op \in {"skip", "next_entry"}) =>
          /\ rres'.kind \in {"Ok", "Pending"}
          /\ (rres'.op = "skip" /\ rres'.kind = "Ok") => r'.state = ExpectingHeader]_vars

\* The bytes of the source the reader has consumed: those delivered, less
\* those still in its buffer.
Consumed == Take(r.data, r.at - Len(buffered_bytes(r)))

\* How far read_archive has come: the bytes consumed from the source, the
\* entries returned and the entries read to their end.  It is at most the
\* length of the source plus twice the number of its header blocks.
Progress == Len(Consumed) + Len(rlog) + Cardinality({i \in 1..Len(rlog) : rlog[i].eof})

\* C5: every call read_archive makes on a truncated archive either fails
\* with an error of kind UnexpectedEof or is Ready and takes read_archive
\* further (so it ends, and ends with that error); no call panics, fails
\* with another kind of error, or is a next_entry that returns absence.
C5_Truncation ==
    [][CallerStep =>
          \/ rres'.kind = "Err" /\ error_kind(rres'.err) = "UnexpectedEof"
          \/ /\ rres'.kind = "Ok"
             /\ ~(rres'.op = "next_entry" /\ ~rres'.some)
             /\ Progress' > Progress]_vars

\* C5 happens: with a buffer of 10 blocks, the archive ends inside the
\* payload of its second entry; the first entry was read to its end.
C5_Witness ==
    /\ rres.kind = "Err" /\ rres.err = "UnexpectedEof" /\ rres.op = "read"
    /\ r.capacity = 10 * BLOCK_SIZE
    /\ Len(rlog) = 2 /\ rlog[1].eof /\ rlog[1].hdr.size > 0
    /\ rlog[2].data # <<>> /\ Len(rlog[2].data) < rlog[2].hdr.size

\* Position p of the stream c is one where a header block is expected: the
\* start, or the end of the payload and padding of an entry whose header
\* block is at such a position.
RECURSIVE HeaderPosition(_, _, _)
HeaderPosition(c, q, p) ==
    IF q = p THEN TRUE
    ELSE IF q > p \/ q + BLOCK_SIZE > Len(c) THEN FALSE
    ELSE LET block == SubSeq(c, q + 1, q + BLOCK_SIZE)
         IN  IF AllZero(block) THEN FALSE
             ELSE HeaderPosition(c, q + BLOCK_SIZE + next_multiple_of(block[2], BLOCK_SIZE), p)

\* C6: when next_entry returns absence, the bytes consumed from the source
\* end with two all-zero blocks, the first of them where a header block was
\* expected.
C6_ExactEof ==
    Absence =>
        LET c == Consumed
            p == Len(c) - 2 * BLOCK_SIZE
        IN  /\ Len(c) >= 2 * BLOCK_SIZE
            /\ AllZero(Drop(c, p))
            /\ HeaderPosition(c, 0, p)

\* C6 happens: next_entry has returned absence after an entry whose payload
\* is all zero and longer than a block, from a source that holds more bytes.
C6_Witness ==
    /\ Absence
    /\ Len(rlog) = 2 /\ rlog[2].hdr.size = BLOCK_SIZE + 1 /\ rlog[2].eof
    /\ Len(r.data) > Len(make_archive_data(rarch))

\* The entries of the source are followed by a zero block and a block that
\* has a non-zero byte.
CorruptMarker ==
    LET n == Len(make_entries_data(rarch))
    IN  /\ Len(r.data) >= n + 2 * BLOCK_SIZE
        /\ AllZero(SubSeq(r.data, n + 1, n + BLOCK_SIZE))
        /\ ~AllZero(SubSeq(r.data, n + BLOCK_SIZE + 1, n + 2 * BLOCK_SIZE))

\* next_entry has answered at the position after the last entry.
AnsweredAfterEntries ==
    /\ rres.op = "next_entry" /\ rres.kind # "Pending"
    /\ Len(rlog) = Len(rarch)
    /\ rlog # <<>> => EntryEnded
    /\ rdisc /\ ~rskips

\* C7: when a zero block at a header position is followed by a block with a
\* non-zero byte, next_entry fails there with ExpectingEmptyBlock, an error
\* of kind InvalidData.
C7_CorruptMarker ==
    (CorruptMarker /\ AnsweredAfterEntries) =>
        /\ rres.kind = "Err"
        /\ rres.err = "ExpectingEmptyBlock"
        /\ error_kind(rres.err) = "InvalidData"

\* C7 happens: the last byte of the second block is the non-zero one, the
\* source delivers a byte a call, and next_entry has failed.
C7_Witness ==
    /\ CorruptMarker /\ AnsweredAfterEntries
    /\ rres.kind = "Err"
    /\ r.sched = <<Moves(1)>>
    /\ \E n \in 1..Len(r.data) : r.data[n] = 1 /\ n % BLOCK_SIZE = 0

\* The offset in the source of the header block that follows the entries
\* returned so far.
NextHeaderAt == Len(make_entries_data(SubSeq(rarch, 1, Len(rlog))))

\* An entry with payload is open: it has returned neither a 0-byte read nor
\* Ok from skip, and no call on it has failed.
PayloadEntryOpen ==
    /\ rentry /\ rhdr.size > 0 /\ ~EntryEnded
    /\ rres.kind \in {"Ok", "Pending"}

\* C11: skip on an open entry of entry_size > 0, whatever part of its
\* payload has been read, does not fail or panic (it is Ok or Pending), and
\* when it returns Ok the state is ExpectingHeader and the bytes consumed
\* from the source end where the following header block starts.
C11_SkipDrains ==
    [][(PayloadEntryOpen /\ SkipEntry) =>
          /\ rres'.kind \in {"Ok", "Pending"}
          /\ rres'.kind = "Ok" =>
                /\ r'.state = ExpectingHeader
                /\ Len(Consumed') = NextHeaderAt]_vars

\* C11 happens: skip has returned Ok on the first of two entries, longer
\* than a block, after one byte of it had been read.
C11_Witness ==
    /\ rres.op = "skip" /\ rres.kind = "Ok"
    /\ Len(rlog) = 1 /\ Len(rarch) = 2
    /\ rlog[1].hdr.size = BLOCK_SIZE + 1 /\ Len(rlog[1].data) = 1
    /\ r.state = ExpectingHeader


\* The source holds a valid archive and then further bytes.
TrailingBytes ==
    /\ Len(r.data) > Len(make_archive_data(rarch))
    /\ IsPrefix(make_archive_data(rarch), r.data)

\* C14: when the source holds a valid archive followed by further bytes,
\* next_entry does not return absence.
C14_TrailingRejected == TrailingBytes => ~Absence

\* The offset in the source of the end of the payload of the entry being
\* read, and that of the end of its padding.
PayloadEnd == Len(make_entries_data(SubSeq(rarch, 1, Len(rlog) - 1))) + BLOCK_SIZE + rhdr.size

PaddingEnd == PayloadEnd + alignment(rhdr.size)

\* The source ends at or after the last payload byte of the entry being read
\* and before the end of its padding.
EndsInPadding ==
    rentry /\ PayloadEnd <= Len(r.data) /\ Len(r.data) < PaddingEnd

\* C19: where the source ends within the padding of an entry, the reads
\* that total the size of the entry succeed and return its payload, and the
\* next_entry that follows reports UnexpectedEof.
C19_TruncatedPadding ==
    [][EndsInPadding =>
          /\ ExactRead =>
                /\ rres'.kind \in {"Ok", "Pending"}
                /\ rres'.kind = "Ok" => rres'.amt > 0
                /\ IsPrefix(rlog'[Len(rlog)].data, rarch[Len(rlog)].data)
          /\ ExactNextEntry =>
                \/ rres'.kind = "Pending"
                \/ rres'.kind = "Err" /\ rres'.err = "UnexpectedEof"
                                      /\ error_kind(rres'.err) = "UnexpectedEof"]_vars

\* The second entry, of BLOCK_SIZE + 1 bytes, has been read in full from a
\* source that ends with its last payload byte, and next_entry has reported
\* UnexpectedEof.
C19_Witness ==
    /\ rres.op = "next_entry" /\ rres.kind = "Err" /\ rres.err = "UnexpectedEof"
    /\ Len(rlog) = 2 /\ rlog[2].hdr.size = BLOCK_SIZE + 1
    /\ rlog[2].data = rarch[2].data
    /\ Len(r.data) = Len(make_entries_data(SubSeq(rarch, 1, 1))) + 2 * BLOCK_SIZE + 1

\* A read or a skip on the entry handle.
EntryCall == (\E n \in ReadSizes : ReadEntry(n)) \/ SkipEntry

\* C23: once a read on an entry has returned 0 bytes or a skip has returned
\* Ok, every further read or skip on the same handle returns 0 bytes or Ok
\* again, consumes no byte of the source, and does not panic.
C23_EntryEofStable ==
    [][(rentry /\ EntryEnded /\ EntryCall) =>
          /\ rres'.kind \in {"Ok", "Pending"}
          /\ rres'.kind = "Ok" => rres'.amt = 0
          /\ Consumed' = Consumed]_vars

\* The panic of State::next in ReceivedHeader and ReceivedData without a
\* header; the unwrap of the chained step of consume fails with it too.
HeaderNil(res) == res.kind = "Panic" /\ res.err = "header cannot be nil"

\* C27: neither driver steps the state machine out of ReceivedHeader or
\* ReceivedData without the header of the entry: no call of the writer or
\* of the reader of a valid archive ends in "header cannot be nil".
C27_HeaderAvailable == ~HeaderNil(wres) /\ ~HeaderNil(rres)

\* A read has consumed the one byte of an entry, and consume has stepped
\* through ReceivedData to the padding with the header of the entry.
C27_Witness ==
    /\ rres.op = "read" /\ rres.kind = "Ok" /\ rres.amt = 1
    /\ rhdr.size = 1 /\ r.state = AligningData(BLOCK_SIZE - 1)

\* The panics of Archive::consume.
ConsumePanics ==
    { "cannot consume more than available",
      "this slice should have already been checked",
      "cannot consume past another entry" }

\* C17: on a valid archive, under every schedule of the source and every
\* caller that consumes at most what an entry read offered it, neither of
\* the two assertions of consume fails, nor its expect on take_slices.
C17_NoOverConsumption == ~(rres.kind = "Panic" /\ rres.err \in ConsumePanics)

\* The caller has consumed 2 of the bytes offered of an entry of
\* BLOCK_SIZE + 1 bytes, with the rest still buffered.
C17_Witness ==
    /\ rres.op = "consume" /\ rres.kind = "Ok" /\ rres.amt = 2
    /\ rhdr.size = BLOCK_SIZE + 1 /\ Len(rlog[Len(rlog)].data) = 2
    /\ r.state = ReceivingData(BLOCK_SIZE - 1)
    /\ Len(buffered_bytes(r)) >= BLOCK_SIZE - 1

\* The offset in the source of the header block of its last entry.
LastHeaderAt == Len(make_entries_data(SubSeq(rarch, 1, Len(rarch) - 1)))

\* next_entry has answered where the header block of the last entry is.
AnsweredAtLastHeader ==
    /\ rres.op = "next_entry" /\ rres.kind # "Pending"
    /\ Len(rlog) >= Len(rarch) - 1
    /\ (Len(rlog) = Len(rarch) - 1 /\ rlog # <<>>) => EntryEnded

\* C16: where the block at a header position fails the checksum, next_entry
\* returns an error of kind InvalidData and no entry; the block is not
\* consumed and the state stays in the header phase, and no entry is ever
\* returned for that block.
C16_ChecksumEnforced ==
    /\ Len(rlog) < Len(rarch)
    /\ AnsweredAtLastHeader =>
          /\ rres.kind = "Err" /\ error_kind(rres.err) = "InvalidData"
          /\ ~rentry
          /\ Len(Consumed) <= LastHeaderAt
          /\ r.state.tag \in {"ExpectingHeader", "ReceivingHeader"}

\* C1: no call of write_archive fails, no call of read_archive on the bytes
\* written fails, the entries read back are the entries written, with their
\* paths, sizes and payload bytes, and next_entry returns absence only after
\* all of them.
C1_RoundTrip ==
    /\ wres.kind = "Ok"
    /\ rres.kind = "Ok"
    /\ Len(rlog) <= Len(wlog)
    /\ \A i \in 1..Len(rlog) :
          /\ rlog[i].hdr = wlog[i].hdr
          /\ IsPrefix(rlog[i].data, wlog[i].data)
          /\ rlog[i].eof => rlog[i].data = wlog[i].data
    /\ Absence => Len(rlog) = Len(wlog)

\* ------------------------------------------------------------------------
\* Claims about both drivers
\* ------------------------------------------------------------------------

\* The bytes the entries of es take in the stream: for each its header block,
\* its payload and its padding.
RECURSIVE EntriesSpan(_)
EntriesSpan(es) ==
    IF es = <<>> THEN 0
    ELSE BLOCK_SIZE + next_multiple_of(Head(es).hdr.size, BLOCK_SIZE) + EntriesSpan(Tail(es))

\* The state machine of a driver is in `state` after n bytes of a stream
\* whose entries so far are es, the last of them the one under way: at a
\* block boundary in ExpectingHeader and ReceivedEof, after whole entries in
\* ExpectingHeader, and in AligningData(rem) short of the end of the entry by
\* rem bytes, fewer than a block.
AlignedAt(state, n, es) ==
    /\ state \in {ExpectingHeader, ReceivedEof} => n % BLOCK_SIZE = 0
    /\ state = ExpectingHeader => n = EntriesSpan(es)
    /\ state = ReceivedEof => n = EntriesSpan(es) + 2 * BLOCK_SIZE
    /\ state.tag = "AligningData" =>
          /\ state.rem < BLOCK_SIZE
          /\ n + state.rem = EntriesSpan(es)
          /\ (n + state.rem) % BLOCK_SIZE = 0

\* C31: in ExpectingHeader and in ReceivedEof the bytes a driver has
\* consumed of the stream are a whole number of blocks; each entry takes,
\* after its header block, nextMultipleOf(entry_size) bytes of payload and
\* padding, the padding being shorter than a block.
C31_BlockAlignment ==
    /\ AlignedAt(w.state, Len(Accepted(w)), wlog)
    /\ AlignedAt(r.state, Len(Consumed), rlog)

\* The reader is back in ExpectingHeader after it skipped an entry of
\* BLOCK_SIZE + 1 bytes, two blocks of payload and padding behind the header.
C31_Witness ==
    /\ r.state = ExpectingHeader /\ rres.op = "skip" /\ rres.kind = "Ok"
    /\ Len(rlog) = 1 /\ rhdr.size = BLOCK_SIZE + 1
    /\ Len(Consumed) = 3 * BLOCK_SIZE

\* What the writer has accepted after the step is what it had accepted
\* before it, then no more than `most` of the payload bytes the caller
\* offers, then, once the payload is complete, zeros of the padding.
AcceptsWithin(most) ==
    \E j \in 0..most : \E i \in 0..alignment(whdr.size) :
        /\ Accepted(w') = Accepted(w) \o Offered(whdr, Len(wdata), j) \o Zeros(i)
        /\ i > 0 => j = w.state.rem

Collapsed(a) == buffered_bytes(a) = <<>> => (a.pos = 0 /\ a.bytes = <<>>)

\* C34: whenever a driver has nothing buffered, after a consume or after a
\* completed flush, both cursors of its buffer are 0; every read of the
\* source was given the whole buffer; and the assertion of poll_fill_buf on
\* the available region does not fail.
C34_BufferCollapse ==
    /\ Collapsed(r) /\ Collapsed(w)
    /\ r.full
    /\ ~(rres.kind = "Panic" /\ rres.err = "available region is empty")

\* With a buffer of one block the reader has consumed more than a block,
\* and the source has then answered a read with 0 bytes.
C34_Witness ==
    /\ rres.kind = "Err" /\ rres.err = "UnexpectedEof"
    /\ r.capacity = BLOCK_SIZE /\ r.at = Len(r.data) /\ r.at > r.capacity
    /\ r.pos = 0 /\ r.bytes = <<>> /\ r.full

\* The cursors of the buffer of a: 0 <= pos <= cap <= capacity.
CursorsInOrder(a) == 0 <= a.pos /\ a.pos <= Len(a.bytes) /\ Len(a.bytes) <= a.capacity

\* C35: in every state of the read driver and of the write driver the read
\* cursor of the buffer is at most its write cursor, and the write cursor at
\* most the length of the buffer.
C35_CursorInvariant == CursorsInOrder(r) /\ CursorsInOrder(w)

\* A payload write longer than the buffer of one block, over a sink without
\* vectored writes, has filled the buffer to its end.
C35_Witness ==
    /\ wres.op = "write" /\ wres.kind = "Ok" /\ wres.amt = BLOCK_SIZE
    /\ ~w.vectored /\ w.capacity = BLOCK_SIZE
    /\ w.pos = 0 /\ Len(w.bytes) = w.capacity

\* The answer of the sink to the last call made of it.
LastAnswer(a) == a.sched[((a.k + Len(a.sched) - 2) % Len(a.sched)) + 1]

\* C36: a flush fails with WriteZero when the sink accepts 0 bytes while
\* bytes are buffered, and only then; the read cursor has moved on by the
\* bytes the sink took, which are gone from the buffer and are not offered
\* again, the bytes it did not take stay buffered, and the state is the one
\* before the flush.
C36_FlushFailure ==
    [][FlushEntry =>
          /\ w'.state = w.state
          /\ Accepted(w') = Accepted(w) /\ IsPrefix(w.out, w'.out)
          /\ wres'.kind \in {"Ok", "Pending", "Err"}
          /\ wres'.kind = "Ok" => buffered_bytes(w') = <<>>
          /\ wres'.kind = "Err" =>
                /\ wres'.err = "WriteZero" /\ error_kind(wres'.err) = "WriteZero"
                /\ LastAnswer(w') = Moves(0)
                /\ buffered_bytes(w') # <<>>
                /\ w'.bytes = w.bytes
                /\ w'.pos = w.pos + (Len(w'.out) - Len(w.out))
          /\ (buffered_bytes(w) # <<>> /\ io_answer(w) = Moves(0)) =>
                (wres'.kind = "Err" /\ w'.out = w.out /\ w'.pos = w.pos)]_vars

\* A flush has failed after the sink took one of the buffered bytes and
\* then none: that byte is in the sink and the rest is still buffered.
C36_Witness ==
    /\ wres.op = "flush" /\ wres.kind = "Err" /\ wres.err = "WriteZero"
    /\ w.pos = 1 /\ Len(w.out) = 1 /\ Len(buffered_bytes(w)) >= BLOCK_SIZE

\* C37: once next_entry has returned absence, a further next_entry returns
\* absence again and leaves the archive as it was: the source is not read,
\* and the state and the buffer are unchanged.
C37_AbsenceStable ==
    [][(rabsent > 0 /\ NextEntry) =>
          /\ rres'.op = "next_entry" /\ rres'.kind = "Ok" /\ ~rres'.some
          /\ r' = r]_vars

\* next_entry has returned absence a second time, from a source that holds
\* bytes behind the end of the archive.
C37_Witness ==
    /\ rabsent = MaxAbsences /\ Absence
    /\ r.state = ReceivedEof /\ r.at < Len(r.data)

\* A call of a caller that alternates next_entry with one skip of the entry
\* or with reads up to the 0-byte read.
AlternatingCall ==
    \/ (rentry => EntryEnded) /\ NextEntry
    \/ rentry /\ ~EntryEnded /\ ((\E n \in ReadSizes : ReadEntry(n)) \/ SkipEntry)

\* How far such a caller has come: the bytes consumed from the source, the
\* entries returned, and the entries read to their end or skipped.  It is at
\* most the length of the source plus twice the number of its entries.
Advance ==
    Len(Consumed) + Len(rlog) + Cardinality({i \in 1..Len(rlog) : rlog[i].eof \/ rlog[i].skipped})

\* C38: on a valid archive, every call of a caller that alternates
\* next_entry with a skip or with reads up to the end of the entry is Ready
\* unless the source was not ready, does not fail, and takes the caller
\* further, up to the next_entry that returns absence in ReceivedEof: the
\* archive is read to its end in finitely many polls.
C38_ReadingTerminates ==
    [][(rdisc /\ rabsent = 0 /\ rres.kind \in {"Ok", "Pending"} /\ AlternatingCall) =>
          /\ rres'.kind \in {"Ok", "Pending"}
          /\ rres'.kind = "Pending" => LastAnswer(r') = NotReady
          /\ rres'.kind = "Ok" =>
                \/ Advance' > Advance
                \/ Absence' /\ r'.state = ReceivedEof /\ Len(rlog) = Len(rarch)]_vars

\* The states in which an entry is in flight.
InFlight(state) ==
    \/ state.tag = "ReceivingHeader" /\ ~state.empty
    \/ state.tag \in {"ReceivedHeader", "ReceivingData", "ReceivedData", "AligningData", "AlignedData"}

\* Every in-flight state, with every count the model's blocks and sizes allow.
InFlightStates ==
    {ReceivingHeader(rem, FALSE) : rem \in 1..BLOCK_SIZE}
       \cup {ReceivingData(rem) : rem \in 0..MaxSize}
       \cup {AligningData(rem) : rem \in 0..(BLOCK_SIZE - 1)}
       \cup {ReceivedHeader, ReceivedData, AlignedData}

\* poll_finish on the writer as it is, put in any in-flight state, panics
\* and leaves the archive as it was.
PanicsInFlight ==
    \A state \in InFlightStates :
        poll_finish([w EXCEPT !.state = state])
            = Rs([w EXCEPT !.state = state], "Panic", "cannot finish archive; invalid state")

\* C39: finish called in an in-flight state (ReceivingHeader(rem, false),
\* ReceivedHeader, ReceivingData(rem), ReceivedData, AligningData(rem),
\* AlignedData) panics and delivers no byte, neither to the buffer nor to
\* the sink; called in ExpectingHeader, ReceivingHeader(rem, true),
\* ReceivingEof(rem) or ReceivedEof it does not panic.
C39_FinishPanics ==
    [][Finish =>
          /\ PanicsInFlight
          /\ InFlight(w.state) => (wres'.kind = "Panic" /\ w' = w)
          /\ ~InFlight(w.state) => wres'.kind # "Panic"]_vars

\* finish was called while the padding of an entry was outstanding and has
\* panicked, with nothing of the marker accepted.
C39_Witness ==
    /\ wres.op = "finish" /\ wres.kind = "Panic"
    /\ w.state.tag = "AligningData" /\ w.state.rem > 0
    /\ Len(wlog) = 1 /\ Len(Accepted(w)) = BLOCK_SIZE + wlog[1].hdr.size

\* ------------------------------------------------------------------------
\* Claims about the zero-byte steps of the state machine
\* ------------------------------------------------------------------------

\* The state has a zero-byte successor: one of the four markers, with the
\* header its successor is computed from.
HasSuccessor(self, header) ==
    /\ self \in {ExpectingHeader, ReceivedHeader, ReceivedData, AlignedData}
    /\ self \in {ReceivedHeader, ReceivedData} => header.some

\* The successor of a marker in the state diagram.
Successor(self, header) ==
    CASE self = ExpectingHeader -> ReceivingHeader(BLOCK_SIZE, TRUE)
      [] self = ReceivedHeader -> ReceivingData(header.size)
      [] self = ReceivedData -> AligningData((BLOCK_SIZE - (header.size % BLOCK_SIZE)) % BLOCK_SIZE)
      [] self = AlignedData -> ExpectingHeader

\* The call has returned the successor of the state with 0 bytes consumed,
\* and that successor is not the state the call started in.
SteppedOnce(header) ==
    /\ sm'.res = SOk(Successor(sm.self, header), 0)
    /\ sm'.self = Successor(sm.self, header) /\ sm'.self # sm.self
    /\ sm'.slices = sm.slices

\* C40: given no bytes (no slices, or only empty ones), take_slices and
\* take_until in ExpectingHeader, ReceivedHeader, ReceivedData and
\* AlignedData return the successor state with 0 bytes consumed, not the
\* state they were called in, and take_marker in those states takes exactly
\* that one zero-byte step whatever the slices hold.
C40_ForwardProgress ==
    [][\A header \in SmHeaders :
          HasSuccessor(sm.self, header) =>
              /\ (Concat(sm.slices) = <<>> /\ CallTakeSlices(header)) => SteppedOnce(header)
              /\ (FirstSlice = <<>> /\ CallTakeUntil(header)) => SteppedOnce(header)
              /\ CallTakeMarker(header) => SteppedOnce(header)]_vars

\* take_slices, given two empty slices in AlignedData (the one state that
\* ExpectingHeader follows without a byte), has returned ExpectingHeader
\* with 0 bytes consumed.
C40_Witness ==
    /\ sm.op = "take_slices" /\ sm.res = SOk(ExpectingHeader, 0)
    /\ sm.self = ExpectingHeader /\ sm.slices = << <<>>, <<>> >>

====
